---- MODULE Spec2Model ----
(***************************************************************************)
(* The job-dispatch layer of the TTS server: the gateway's synchronous     *)
(* submission (backend/gateway/main.py), the queue service over the broker *)
(* (backend/shared/redis_client.py) and the worker loop                    *)
(* (backend/worker/main.py).                                               *)
(*                                                                         *)
(* Every broker command (LPUSH, BRPOP, SET, GET, LLEN, HINCRBY, DEL) is    *)
(* one atomic step; a function that issues several commands is several     *)
(* steps, so that other processes interleave between them as they do on    *)
(* the real broker.  Local computation is folded into the broker command   *)
(* that follows it.                                                        *)
(*                                                                         *)
(* Time is counted in poll intervals of wait_for_result (100 ms) and only  *)
(* relative to the start of each wait.                                     *)
(***************************************************************************)
EXTENDS Integers, Sequences, FiniteSets, TLC

\* ---------------------------------------------------------------- bounds
NumJobs == 2        \* submissions (each creates one job with a fresh id)
NumWorkers == 2     \* worker processes
MaxTimeout == 1     \* JOB_TIMEOUT ranges over 0..MaxTimeout poll intervals
NumCallers == 2     \* concurrent calls of increment_usage
MaxDeletes == 2     \* calls of delete_key

\* ------------------------------------------------------ program constants
PollTicks == 1      \* poll_interval = 0.1 s, the unit of time

Jobs == 1..NumJobs
Workers == 1..NumWorkers
Callers == 1..NumCallers

QUALITY_HIGH == "high"
QUALITY_FAST == "fast"
Qualities == {QUALITY_HIGH, QUALITY_FAST}
\* QUALITY as it may be configured in the worker's environment
QualityConfigs == {"high", "fast", "ultra"}
QUALITY_PRESETS == {"high", "fast"}

None == "None"      \* Python's None where a string is expected
NIL == <<>>         \* Python's None where a dict is expected
Some(x) == <<x>>
The(o) == o[1]

PENDING == "pending"
PROCESSING == "processing"
COMPLETED == "completed"
ERROR == "error"
Terminal == {COMPLETED, ERROR}

KeyIds == {"k1", "k2"}

VARIABLES
    \* the broker
    queue,          \* tts:jobs:{quality}: list of job JSON texts, head first
    blocked,        \* per list, the clients blocked in BRPOP, longest wait first
    status,         \* tts:status:{job_id}, None when the key does not exist
    result,         \* tts:result:{job_id}: JSON text, {} when the key does not exist
    workerKey,      \* tts:worker:{worker_id}: the quality, None when absent
    metrics,        \* tts:metrics hash
    apikey,         \* apikey:{key_id}: the credential record, NIL when absent
    \* configuration
    JOB_TIMEOUT,    \* gateway: JOB_TIMEOUT, in poll intervals
    \* the workers
    quality,        \* self.quality
    running,        \* self.running
    wpc,            \* where the worker is in run()
    job,            \* the job dequeue_job returned, NIL if none
    wresult,        \* what _process_job returned, NIL if none
    \* the gateway's synchronous handlers, one per submission
    rpc,            \* where the handler is
    req,            \* the validated TTSRequest of the submission
    api_key_info,   \* what verify_api_key returned: None (localhost) or a key id
    queue_position, \* the handler's local queue_position
    elapsed,        \* time.time() - start_time of the handler's wait
    wake,           \* when the current sleep of the wait ends
    sleeps,         \* how many times the wait has slept
    waited,         \* what wait_for_result returned
    response,       \* the HTTP response, NIL before it is sent
    \* history, read by the properties only
    pushLog,        \* per quality, job ids in the order they were pushed
    popLog,         \* per quality, job ids in the order they were popped
    enqueued,       \* per quality, number of enqueue_job calls that returned
    dequeuedBy,     \* per job, the workers dequeue_job returned it to, in order
    resultWrites,   \* per job, number of writes of tts:result:{job_id}
    processingLog,  \* job ids in the order status 'processing' was written
    storedInTime,   \* per job, its result was stored before its waiter's deadline
    statusLog,      \* per job, the values written to tts:status:{job_id}, in order
    ttlExpired,     \* the keys the TTL has removed and nothing has rewritten
    \* the voice-sample catalogue (metadata.json and the .wav files)
    samples,
    \* callers of increment_usage in other processes, and the key tool
    ipc,            \* where each caller is in increment_usage
    iread,          \* the record its GET returned, NIL if none
    issued,         \* the full keys create_key has returned, in order
    live,           \* those issued whose key id no delete_key has named since
    deleteLog,      \* <<key_id, returned>> of each delete_key call, in order
    \* the broker's availability and a request to a read-only endpoint
    brokerUp,       \* the broker answers commands
    ppc,            \* where the handler of the request is
    pep,            \* the endpoint requested
    plocals,        \* health's locals
    presp,          \* the HTTP response, NIL before it is sent
    \* the worker's temporary reference-audio files
    tmpfiles,       \* the jobs whose temporary file exists on disk
    ref_audio_path, \* _process_job's local of each worker, NIL for None
    \* the worker's start-up
    tts_api,        \* the engine is loaded (self.tts_api is not None)
    signalled,      \* history: a termination signal has been delivered
    \* the heartbeat's clocks, in seconds
    since_heartbeat,\* time.time() - self.last_heartbeat of each worker
    key_age,        \* the time since tts:worker:{id} was last written
    blocked_for,    \* the time the worker has spent in its current BRPOP
    loop_for        \* the time the iteration has spent outside BRPOP

brokerVars == <<queue, blocked, status, result, workerKey, metrics, apikey>>
workerVars == <<quality, running, wpc, job, wresult>>
gatewayVars == <<rpc, req, api_key_info, queue_position, elapsed, wake, sleeps,
                 waited, response>>
historyVars == <<pushLog, popLog, enqueued, dequeuedBy, resultWrites,
                 processingLog, storedInTime, statusLog, ttlExpired>>
keyVars == <<ipc, iread, issued, live, deleteLog>>
healthVars == <<brokerUp, ppc, pep, plocals, presp>>
fileVars == <<tmpfiles, ref_audio_path>>
startVars == <<tts_api, signalled>>
beatVars == <<since_heartbeat, key_age, blocked_for, loop_for>>
outerVars == <<samples, keyVars, healthVars, fileVars, startVars, beatVars>>
otherVars == <<samples, keyVars, healthVars, startVars, beatVars>>
restVars == <<samples, keyVars, healthVars, fileVars, beatVars>>
vars == <<brokerVars, JOB_TIMEOUT, workerVars, gatewayVars, historyVars, outerVars>>

\* ------------------------------------------------------------------ JSON
\* A JSON text is the set of its members <<name, token>>; a token is
\* <<"null">>, <<"string", s>> or <<"number", n>>.
NumberFields == {"timeout", "audio_duration", "generation_time"}
NullableFields == {"reference_audio", "reference_text"}

json_token(k, v) ==
    IF k \in NumberFields THEN <<"number", v>>
    ELSE IF k \in NullableFields /\ v = None THEN <<"null">>
    ELSE <<"string", v>>

json_value(tok) == IF tok[1] = "null" THEN None ELSE tok[2]

json_dumps(d) == {<<k, json_token(k, d[k])>> : k \in DOMAIN d}

json_loads(s) ==
    [k \in {m[1] : m \in s} |-> json_value((CHOOSE m \in s : m[1] = k)[2])]

\* Mutant: the base64 text passed on undecoded.
b64decode_skipped(text) == text

b64encode(bytes) == <<"b64", bytes>>
b64decode(text) == text[2]

\* ----------------------------------------------------------- credentials
KEY_PREFIX == "vvtts_"
KEY_LENGTH == 32

\* A full key is a prefix and a token.  Of the token the model keeps its
\* length, its last 8 characters (the key id) and what precedes them.
FullKey(prefix, length, head, key_id) ==
    [prefix |-> prefix, length |-> length, head |-> head, key_id |-> key_id]

KeyHeads == {"a", "b"}

\* generate_api_key: the prefix and 32 random hex characters.
GeneratedKeys == {FullKey(KEY_PREFIX, KEY_LENGTH, h, k) : h \in KeyHeads, k \in KeyIds}

EmptyKey == FullKey("", 0, "", "")

\* Strings no generate_api_key returns: a wrong prefix, a token one
\* character short, the empty string.
MalformedKeys ==
    {FullKey("sk_", KEY_LENGTH, "a", "k1"),
     FullKey(KEY_PREFIX, KEY_LENGTH - 1, "a", "k1"),
     EmptyKey}

FullKeys == GeneratedKeys \cup MalformedKeys

get_key_id_from_full_key(full_key) ==
    IF full_key = EmptyKey \/ full_key.prefix # KEY_PREFIX THEN None
    ELSE IF full_key.length # KEY_LENGTH THEN None
    ELSE full_key.key_id

\* _hash_key: SHA-256, taken to be free of collisions.
hash_key(full_key) == <<"sha256", full_key>>

KeyNames == {"friend"}

\* create_key's key_data (created_at left out).
key_data(full_key, name) ==
    [key_id |-> full_key.key_id,
     full_key_hash |-> hash_key(full_key),
     name |-> name,
     requests_count |-> 0,
     audio_seconds |-> 0]

APIKeyInfo(kd) ==
    [key_id |-> kd.key_id, name |-> kd.name,
     requests_count |-> kd.requests_count, audio_seconds |-> kd.audio_seconds]

validate_key(store, full_key) ==
    LET key_id == get_key_id_from_full_key(full_key) IN
    IF key_id = None THEN NIL
    ELSE IF key_id \notin DOMAIN store \/ store[key_id] = NIL THEN NIL
    ELSE IF The(store[key_id]).full_key_hash # hash_key(full_key) THEN NIL
    ELSE Some(APIKeyInfo(The(store[key_id])))

\* The store after create_key returned full_key: SET apikey:{key_id}.
create_key(store, full_key, name) ==
    [store EXCEPT ![full_key.key_id] = Some(key_data(full_key, name))]

\* Mutant: a delete_key that reports success whatever it found.
delete_key_returns_true(store, key_id) == TRUE

\* delete_key: DEL apikey:{key_id}; true when a key was removed.
delete_key_returns(store, key_id) == store[key_id] # NIL
delete_key(store, key_id) == [store EXCEPT ![key_id] = NIL]

\* ------------------------------------------------------- the queue service
JOBS_QUEUE_HIGH == "tts:jobs:high"
JOBS_QUEUE_FAST == "tts:jobs:fast"
QueueKeys == {JOBS_QUEUE_HIGH, JOBS_QUEUE_FAST}

\* Mutant: one list for both classes.
get_queue_key_single(q) == JOBS_QUEUE_HIGH

get_queue_key(q) == IF q = QUALITY_FAST THEN JOBS_QUEUE_FAST ELSE JOBS_QUEUE_HIGH

\* Mutants: RPUSH for LPUSH; a pop from the head; a read that removes nothing.
rpush_list(list, v) == list \o <<v>>
lpop_value(list) == list[1]
rpop_rest_kept(list) == list

\* LPUSH puts the value at the head of the list, BRPOP takes the tail.
lpush_list(list, v) == <<v>> \o list
rpop_value(list) == list[Len(list)]
rpop_rest(list) == SubSeq(list, 1, Len(list) - 1)

RemoveFrom(seq, x) == SelectSeq(seq, LAMBDA y : y # x)

get_job_status(j) == status[j]

get_result(j) == IF result[j] # {} THEN Some(json_loads(result[j])) ELSE NIL

llen(key) == Len(queue[key])

get_queue_size(q) == llen(get_queue_key(q))
get_queue_size_total == llen(JOBS_QUEUE_HIGH) + llen(JOBS_QUEUE_FAST)
get_queue_sizes == [high |-> llen(JOBS_QUEUE_HIGH), fast |-> llen(JOBS_QUEUE_FAST)]

\* ----------------------------------------------------------- the gateway
\* Voice cloning asks for both reference fields; a request carries both or none.
References ==
    {[reference_audio |-> None, reference_text |-> None],
     [reference_audio |-> "b64audio", reference_text |-> "transcript"]}

\* What the gate reads of a request: the client's host (None when the
\* request has no client), the X-Forwarded-For header split at its commas
\* (<<>> when absent or empty), the X-API-Key header and the api_key query
\* parameter (NIL when absent).
localhost_ips == {"127.0.0.1", "::1", "localhost"}

ClientHosts == {None, "127.0.0.1", "10.0.0.5"}

ForwardedFors == {<<>>, <<" 127.0.0.1 ", "10.0.0.5">>, <<"10.0.0.5", "127.0.0.1">>}

strip(text) == IF text = " 127.0.0.1 " THEN "127.0.0.1" ELSE text

Origin(client_host, forwarded_for, x_api_key, api_key) ==
    [client_host |-> client_host, forwarded_for |-> forwarded_for,
     x_api_key |-> x_api_key, api_key |-> api_key]

Local == Origin("127.0.0.1", <<>>, NIL, NIL)

SYNC == "/synthesize"
ASYNC == "/synthesize/async"

\* TTSRequest: the fields with a constraint.  The text is kept as its
\* length, NIL when the field is missing; speed and trim_audio_to are left
\* at their defaults.
MIN_TEXT_LENGTH == 1
MAX_TEXT_LENGTH == 5000
Genders == {"male", "female"}
Areas == {"northern", "southern", "central"}
Emotions == {"neutral", "serious", "monotone", "sad", "surprised", "happy", "angry"}

Body(text, gender, area, emotion) ==
    [text |-> text, gender |-> gender, area |-> area, emotion |-> emotion]

\* A body with the shortest text and no voice attribute.
PlainBody == Body(Some(MIN_TEXT_LENGTH), None, None, None)

Request(endpoint, origin, q, ref, sample) ==
    [endpoint |-> endpoint,
     text |-> PlainBody.text,
     gender |-> PlainBody.gender,
     area |-> PlainBody.area,
     emotion |-> PlainBody.emotion,
     sample |-> sample,
     client_host |-> origin.client_host,
     forwarded_for |-> origin.forwarded_for,
     x_api_key |-> origin.x_api_key,
     api_key |-> origin.api_key,
     quality |-> q,
     reference_audio |-> ref.reference_audio,
     reference_text |-> ref.reference_text]

DefaultRequest ==
    Request(SYNC, Local, QUALITY_HIGH,
            [reference_audio |-> None, reference_text |-> None], NIL)

\* Synchronous submissions from the origins given.
RequestShapes(origins) ==
    {Request(SYNC, o, q, ref, NIL) : o \in origins, q \in Qualities, ref \in References}

\* The same request with another body and quality.
WithBody(rq, body, q) ==
    [rq EXCEPT !.text = body.text, !.gender = body.gender, !.area = body.area,
               !.emotion = body.emotion, !.quality = q]

\* Mutant: a schema without the lower bound on the text.
TTSRequest_valid_any_length(rq) ==
    /\ rq.text # NIL /\ The(rq.text) <= MAX_TEXT_LENGTH
    /\ rq.gender \in {None} \cup Genders
    /\ rq.area \in {None} \cup Areas
    /\ rq.emotion \in {None} \cup Emotions
    /\ rq.quality \in Qualities

\* TTSRequest: the body passes the schema.
TTSRequest_valid(rq) ==
    /\ rq.text # NIL
    /\ The(rq.text) >= MIN_TEXT_LENGTH /\ The(rq.text) <= MAX_TEXT_LENGTH
    /\ rq.gender \in {None} \cup Genders
    /\ rq.area \in {None} \cup Areas
    /\ rq.emotion \in {None} \cup Emotions
    /\ rq.quality \in Qualities

is_localhost_request(rq) ==
    IF rq.client_host \in localhost_ips THEN TRUE
    ELSE IF rq.forwarded_for # <<>>
    THEN strip(rq.forwarded_for[1]) \in localhost_ips
    ELSE FALSE

\* A header or parameter that is neither None nor the empty string.
Truthy(key) == key # NIL /\ The(key) # EmptyKey

Admitted(key_info) == [status_code |-> 200, detail |-> "", key_info |-> key_info]
Rejected(detail) == [status_code |-> 401, detail |-> detail, key_info |-> NIL]

\* Mutant: a gate that lets a request without a credential through.
verify_api_key_open(rq, store) ==
    IF is_localhost_request(rq) THEN Admitted(NIL)
    ELSE LET key == IF Truthy(rq.x_api_key) THEN rq.x_api_key ELSE rq.api_key IN
         IF ~Truthy(key) THEN Admitted(NIL)
         ELSE IF validate_key(store, The(key)) = NIL
         THEN Rejected("Invalid API key.")
         ELSE Admitted(validate_key(store, The(key)))

\* Mutant: a gate that tries the query parameter when the header fails.
verify_api_key_either(rq, store) ==
    IF is_localhost_request(rq) THEN Admitted(NIL)
    ELSE IF ~Truthy(rq.x_api_key) /\ ~Truthy(rq.api_key)
    THEN Rejected("API key required. Provide via X-API-Key header or api_key query parameter.")
    ELSE IF Truthy(rq.x_api_key) /\ validate_key(store, The(rq.x_api_key)) # NIL
    THEN Admitted(validate_key(store, The(rq.x_api_key)))
    ELSE IF Truthy(rq.api_key) /\ validate_key(store, The(rq.api_key)) # NIL
    THEN Admitted(validate_key(store, The(rq.api_key)))
    ELSE Rejected("Invalid API key.")

\* verify_api_key: the localhost bypass, else the key of the header or,
\* failing that, of the query parameter.
verify_api_key(rq, store) ==
    IF is_localhost_request(rq) THEN Admitted(NIL)
    ELSE LET key == IF Truthy(rq.x_api_key) THEN rq.x_api_key ELSE rq.api_key IN
         IF ~Truthy(key)
         THEN Rejected("API key required. Provide via X-API-Key header or api_key query parameter.")
         ELSE IF validate_key(store, The(key)) = NIL
         THEN Rejected("Invalid API key.")
         ELSE Admitted(validate_key(store, The(key)))

\* api_key_info as the handlers use it: the key id, None after the bypass.
key_id_of(key_info) == IF key_info = NIL THEN None ELSE The(key_info).key_id

TTSJob(j, rq) ==
    [job_id |-> j,
     quality |-> rq.quality,
     reference_audio |-> rq.reference_audio,
     reference_text |-> rq.reference_text,
     timeout |-> JOB_TIMEOUT]

\* The handlers run on one event loop: between a handler's LPUSH and the
\* start of its wait (run_in_executor) no other handler runs.
InEventLoop == {r \in Jobs : rpc[r] \in {"pushed", "enqueued", "sized"}}

Waiting == {r \in Jobs : rpc[r] \in {"poll", "sleep"}}

\* synthesize, up to the first command of enqueue_job: LPUSH.  A client
\* blocked in BRPOP on the list is served the value at once.
synthesize_push(r) ==
    /\ rpc[r] = "idle"
    /\ \A r2 \in Jobs : r2 < r => rpc[r2] # "idle"
    /\ InEventLoop = {}
    /\ LET key == get_queue_key(req[r].quality)
           job_json == json_dumps(TTSJob(r, req[r]))
       IN  /\ pushLog' = [pushLog EXCEPT ![key] = Append(@, r)]
           /\ IF blocked[key] # <<>>
              THEN LET w == Head(blocked[key]) IN
                   /\ blocked' = [blocked EXCEPT ![key] = Tail(@)]
                   /\ job' = [job EXCEPT ![w] = Some(json_loads(job_json))]
                   /\ wpc' = [wpc EXCEPT ![w] = "process"]
                   /\ popLog' = [popLog EXCEPT ![key] = Append(@, r)]
                   /\ dequeuedBy' = [dequeuedBy EXCEPT ![r] = Append(@, w)]
                   /\ UNCHANGED queue
              ELSE /\ queue' = [queue EXCEPT ![key] = lpush_list(@, job_json)]
                   /\ UNCHANGED <<blocked, job, wpc, popLog, dequeuedBy>>
    /\ rpc' = [rpc EXCEPT ![r] = "pushed"]
    /\ UNCHANGED <<outerVars, status, result, workerKey, metrics, apikey, JOB_TIMEOUT,
                   quality, running, wresult, req, api_key_info, queue_position,
                   elapsed, wake, sleeps, waited, response, enqueued,
                   resultWrites, processingLog, storedInTime,
                   statusLog, ttlExpired>>

\* Mutant: an enqueue_job that returns without writing the status key.
enqueue_job_without_status(r) ==
    /\ rpc[r] = "pushed"
    /\ enqueued' = [enqueued EXCEPT ![get_queue_key(req[r].quality)] = @ + 1]
    /\ rpc' = [rpc EXCEPT ![r] = "enqueued"]
    /\ UNCHANGED <<outerVars, brokerVars, JOB_TIMEOUT, workerVars, req, api_key_info,
                   queue_position, elapsed, wake, sleeps, waited, response, pushLog,
                   popLog, dequeuedBy, resultWrites, processingLog, storedInTime,
                   statusLog, ttlExpired>>

\* enqueue_job's second command: SET status 'pending'; enqueue_job returns.
enqueue_job_set_pending(r) ==
    /\ rpc[r] = "pushed"
    /\ status' = [status EXCEPT ![r] = PENDING]
    /\ statusLog' = [statusLog EXCEPT ![r] = Append(@, PENDING)]
    /\ ttlExpired' = ttlExpired \ {<<"status", r>>}
    /\ enqueued' = [enqueued EXCEPT ![get_queue_key(req[r].quality)] = @ + 1]
    /\ rpc' = [rpc EXCEPT ![r] = "enqueued"]
    /\ UNCHANGED <<outerVars, queue, blocked, result, workerKey, metrics, apikey,
                   JOB_TIMEOUT, workerVars, req, api_key_info, queue_position,
                   elapsed, wake, sleeps, waited, response, pushLog, popLog,
                   dequeuedBy, resultWrites, processingLog, storedInTime>>

\* queue_position = get_queue_size(quality); then the wait starts
\* (start_time = time.time()).
synthesize_queue_size(r) ==
    /\ rpc[r] = "enqueued"
    /\ req[r].endpoint = SYNC
    /\ queue_position' = [queue_position EXCEPT ![r] = get_queue_size(req[r].quality)]
    /\ elapsed' = [elapsed EXCEPT ![r] = 0]
    /\ rpc' = [rpc EXCEPT ![r] = "poll"]
    /\ UNCHANGED <<outerVars, brokerVars, JOB_TIMEOUT, workerVars, req, api_key_info, wake,
                   sleeps, waited, response, historyVars>>

\* Mutant: a loop test that still passes at the deadline.
WithinTimeoutInclusive(e, timeout) == e <= timeout

\* while time.time() - start_time < timeout
WithinTimeout(e, timeout) == e < timeout

\* wait_for_result: the loop test and, when it passes, get_result.
wait_for_result_poll(r) ==
    /\ rpc[r] = "poll"
    /\ IF WithinTimeout(elapsed[r], JOB_TIMEOUT)
       THEN IF get_result(r) # NIL
            THEN /\ waited' = [waited EXCEPT ![r] = get_result(r)]
                 /\ rpc' = [rpc EXCEPT ![r] = "respond"]
                 /\ UNCHANGED <<wake, sleeps>>
            ELSE /\ wake' = [wake EXCEPT ![r] = elapsed[r] + PollTicks]
                 /\ sleeps' = [sleeps EXCEPT ![r] = @ + 1]
                 /\ rpc' = [rpc EXCEPT ![r] = "sleep"]
                 /\ UNCHANGED waited
       ELSE /\ waited' = [waited EXCEPT ![r] = NIL]
            /\ rpc' = [rpc EXCEPT ![r] = "respond"]
            /\ UNCHANGED <<wake, sleeps>>
    /\ UNCHANGED <<outerVars, brokerVars, JOB_TIMEOUT, workerVars, req, api_key_info,
                   queue_position, elapsed, response, historyVars>>

\* time.sleep(poll_interval) returns once the interval has passed.
wait_for_result_wake(r) ==
    /\ rpc[r] = "sleep"
    /\ elapsed[r] >= wake[r]
    /\ rpc' = [rpc EXCEPT ![r] = "poll"]
    /\ UNCHANGED <<outerVars, brokerVars, JOB_TIMEOUT, workerVars, req, api_key_info,
                   queue_position, elapsed, wake, sleeps, waited, response,
                   historyVars>>

\* One poll interval passes.  Past the deadline plus one interval a wait
\* reads the clock the same way whatever its value, so the count stops there.
ElapsedCap == JOB_TIMEOUT + PollTicks

Tick ==
    /\ \E r \in Waiting : elapsed[r] < ElapsedCap
    /\ elapsed' = [r \in Jobs |->
                     IF r \in Waiting /\ elapsed[r] < ElapsedCap
                     THEN elapsed[r] + 1 ELSE elapsed[r]]
    /\ UNCHANGED <<outerVars, brokerVars, JOB_TIMEOUT, workerVars, rpc, req, api_key_info,
                   queue_position, wake, sleeps, waited, response, historyVars>>

\* Mutant: an increment_usage that adds the seconds but counts no request.
increment_usage_uncounted(store, key_id, audio_seconds) ==
    IF store[key_id] # NIL
    THEN [store EXCEPT ![key_id] =
            Some([The(@) EXCEPT !.audio_seconds = @ + audio_seconds])]
    ELSE store

\* increment_usage: GET the record, add, SET it back (nothing if absent).
increment_usage(store, key_id, audio_seconds) ==
    IF store[key_id] # NIL
    THEN [store EXCEPT ![key_id] =
            Some([The(@) EXCEPT !.requests_count = @ + 1,
                                !.audio_seconds = @ + audio_seconds])]
    ELSE store

Response(code, detail, content, headers) ==
    [status_code |-> code, detail |-> detail, content |-> content, headers |-> headers]

\* synthesize after the wait: 408, 500 or 200.
synthesize_response(r) ==
    IF waited[r] = NIL
    THEN Response(408, "Synthesis timeout - try again later", <<>>, {})
    ELSE IF The(waited[r]).status = ERROR
    THEN Response(500, The(waited[r]).error, <<>>, {})
    ELSE Response(200, "", b64decode(The(waited[r]).audio),
                  {<<"X-Job-Id", r>>,
                   <<"X-Generation-Time", The(waited[r]).generation_time>>,
                   <<"X-Audio-Duration", The(waited[r]).audio_duration>>,
                   <<"X-Queue-Position", queue_position[r]>>})

\* Mutant: a 408 that also withdraws the job (list entry and status key).
synthesize_respond_cancelling(r) ==
    /\ rpc[r] = "respond"
    /\ response' = [response EXCEPT ![r] = Some(synthesize_response(r))]
    /\ apikey' = IF /\ waited[r] # NIL
                    /\ The(waited[r]).status # ERROR
                    /\ api_key_info[r] # None
                 THEN increment_usage(apikey, api_key_info[r],
                                      The(waited[r]).audio_duration)
                 ELSE apikey
    /\ queue' = IF waited[r] = NIL
                THEN [k \in QueueKeys |->
                         SelectSeq(queue[k], LAMBDA x : json_loads(x).job_id # r)]
                ELSE queue
    /\ status' = IF waited[r] = NIL THEN [status EXCEPT ![r] = None] ELSE status
    /\ rpc' = [rpc EXCEPT ![r] = "done"]
    /\ UNCHANGED <<outerVars, blocked, result, workerKey, metrics,
                   JOB_TIMEOUT, workerVars, req, api_key_info, queue_position,
                   elapsed, wake, sleeps, waited, historyVars>>

synthesize_respond(r) ==
    /\ rpc[r] = "respond"
    /\ response' = [response EXCEPT ![r] = Some(synthesize_response(r))]
    /\ apikey' = IF /\ waited[r] # NIL
                    /\ The(waited[r]).status # ERROR
                    /\ api_key_info[r] # None
                 THEN increment_usage(apikey, api_key_info[r],
                                      The(waited[r]).audio_duration)
                 ELSE apikey
    /\ rpc' = [rpc EXCEPT ![r] = "done"]
    /\ UNCHANGED <<outerVars, queue, blocked, status, result, workerKey, metrics,
                   JOB_TIMEOUT, workerVars, req, api_key_info, queue_position,
                   elapsed, wake, sleeps, waited, historyVars>>

\* Mutant: a download that serves whatever result is stored.
get_job_audio_any(j) ==
    IF get_result(j) = NIL
    THEN Response(404, "Job not found or expired", <<>>, {})
    ELSE Response(200, "",
                  IF "audio" \in DOMAIN The(get_result(j))
                  THEN b64decode(The(get_result(j)).audio) ELSE <<>>,
                  {<<"Content-Disposition", j>>})

\* GET /job/{job_id}/audio: 404 without a result, 400 for a result that is
\* not 'completed', else the decoded audio.
get_job_audio(j) ==
    IF get_result(j) = NIL
    THEN Response(404, "Job not found or expired", <<>>, {})
    ELSE IF The(get_result(j)).status # COMPLETED
    THEN Response(400, <<"Job status is ", The(get_result(j)).status, ", not completed">>,
                  <<>>, {})
    ELSE Response(200, "", b64decode(The(get_result(j)).audio),
                  {<<"Content-Disposition", j>>,
                   <<"X-Generation-Time", The(get_result(j)).generation_time>>})

\* get_queue_position: the index of the job counted from the end BRPOP
\* takes from, -1 when the list does not hold it.
get_queue_position(j, q) ==
    LET list == queue[get_queue_key(q)]
        at == {i \in 1..Len(list) : json_loads(list[Len(list) + 1 - i]).job_id = j}
    IN  IF at = {} THEN -1
        ELSE (CHOOSE i \in at : \A k \in at : i <= k) - 1

JobStatusResponse(j, st, position, audio_url, generation_time, error) ==
    [status_code |-> 200, job_id |-> j, status |-> st, queue_position |-> position,
     audio_url |-> audio_url, generation_time |-> generation_time, error |-> error]

\* Mutant: a status answer that carries the status and nothing with it.
get_job_status_handler_bare(j) ==
    IF get_job_status(j) = None
    THEN [status_code |-> 404, detail |-> "Job not found"]
    ELSE JobStatusResponse(j, get_job_status(j), NIL, NIL, NIL, NIL)

\* GET /job/{job_id}: 404 without a status key, else the status and what
\* goes with it.  get_queue_position is called without the job's quality.
get_job_status_handler(j) ==
    IF get_job_status(j) = None
    THEN [status_code |-> 404, detail |-> "Job not found"]
    ELSE IF get_job_status(j) = PENDING
    THEN JobStatusResponse(j, PENDING, Some(get_queue_position(j, QUALITY_HIGH)),
                           NIL, NIL, NIL)
    ELSE IF get_job_status(j) = COMPLETED /\ get_result(j) # NIL
    THEN JobStatusResponse(j, COMPLETED, NIL, Some(<<"/job/", j, "/audio">>),
                           IF "generation_time" \in DOMAIN The(get_result(j))
                           THEN Some(The(get_result(j)).generation_time) ELSE NIL,
                           NIL)
    ELSE IF get_job_status(j) = ERROR /\ get_result(j) # NIL
    THEN JobStatusResponse(j, ERROR, NIL, NIL, NIL,
                           IF "error" \in DOMAIN The(get_result(j))
                           THEN Some(The(get_result(j)).error) ELSE NIL)
    ELSE JobStatusResponse(j, get_job_status(j), NIL, NIL, NIL, NIL)

\* What the framework does before the body of synthesize and of
\* synthesize_async: Depends(verify_api_key) first (401), then the body
\* against TTSRequest (422), then api_key_info and req for the handler.
verify_api_key_step(r) ==
    /\ rpc[r] = "arrived"
    /\ req[r].endpoint \in {SYNC, ASYNC}
    /\ LET v == verify_api_key(req[r], apikey) IN
       IF v.status_code = 401
       THEN /\ response' = [response EXCEPT ![r] = Some(Response(401, v.detail, <<>>, {}))]
            /\ rpc' = [rpc EXCEPT ![r] = "rejected"]
            /\ UNCHANGED api_key_info
       ELSE IF ~TTSRequest_valid(req[r])
       THEN /\ response' = [response EXCEPT ![r] =
                              Some(Response(422, "validation error", <<>>, {}))]
            /\ rpc' = [rpc EXCEPT ![r] = "invalid"]
            /\ UNCHANGED api_key_info
       ELSE /\ api_key_info' = [api_key_info EXCEPT ![r] = key_id_of(v.key_info)]
            /\ rpc' = [rpc EXCEPT ![r] = "idle"]
            /\ UNCHANGED response
    /\ UNCHANGED <<outerVars, brokerVars, JOB_TIMEOUT, workerVars, req, queue_position,
                   elapsed, wake, sleeps, waited, historyVars>>

\* Mutant: the workers that are running, whatever keys exist.
get_active_workers_running == {w \in Workers : running[w]}

get_active_workers == {w \in Workers : workerKey[w] # None}

AVG_GENERATION_TIME == 3

\* synthesize_async after enqueue_job: queue_position = get_queue_size(quality).
synthesize_async_queue_size(r) ==
    /\ rpc[r] = "enqueued"
    /\ req[r].endpoint = ASYNC
    /\ queue_position' = [queue_position EXCEPT ![r] = get_queue_size(req[r].quality)]
    /\ rpc' = [rpc EXCEPT ![r] = "sized"]
    /\ UNCHANGED <<outerVars, brokerVars, JOB_TIMEOUT, workerVars, req, api_key_info,
                   elapsed, wake, sleeps, waited, response, historyVars>>

\* Mutant: an estimate that divides by at least one worker.
estimated_wait_never_null(position, workers) ==
    Some([num |-> position * AVG_GENERATION_TIME,
          den |-> IF workers > 0 THEN workers ELSE 1])

\* estimated_wait = (queue_position / workers) * AVG_GENERATION_TIME, kept
\* as numerator and denominator; None without an active worker.
estimated_wait(position, workers) ==
    IF workers > 0
    THEN Some([num |-> position * AVG_GENERATION_TIME, den |-> workers])
    ELSE NIL

TTSAsyncResponse(j, position, wait) ==
    [status_code |-> 200, job_id |-> j, status |-> PENDING,
     queue_position |-> position, estimated_wait |-> wait]

\* Mutant: an asynchronous submission that charges nothing.
synthesize_async_respond_uncharged(r) ==
    /\ rpc[r] = "sized"
    /\ response' = [response EXCEPT ![r] =
                      Some(TTSAsyncResponse(r, queue_position[r],
                              estimated_wait(queue_position[r],
                                             Cardinality(get_active_workers))))]
    /\ rpc' = [rpc EXCEPT ![r] = "done"]
    /\ UNCHANGED <<outerVars, queue, blocked, status, result, workerKey, metrics,
                   apikey, JOB_TIMEOUT, workerVars, req, api_key_info, queue_position,
                   elapsed, wake, sleeps, waited, historyVars>>

\* synthesize_async to its end: the active workers counted, the request
\* charged to the credential (no audio seconds), the response.
synthesize_async_respond(r) ==
    /\ rpc[r] = "sized"
    /\ response' = [response EXCEPT ![r] =
                      Some(TTSAsyncResponse(r, queue_position[r],
                              estimated_wait(queue_position[r],
                                             Cardinality(get_active_workers))))]
    /\ apikey' = IF api_key_info[r] # None
                 THEN increment_usage(apikey, api_key_info[r], 0)
                 ELSE apikey
    /\ rpc' = [rpc EXCEPT ![r] = "done"]
    /\ UNCHANGED <<outerVars, queue, blocked, status, result, workerKey, metrics,
                   JOB_TIMEOUT, workerVars, req, api_key_info, queue_position,
                   elapsed, wake, sleeps, waited, historyVars>>

\* ------------------------------------------------------- voice samples
MAX_DEFAULT_SAMPLES == 3

SAVE_SAMPLE == "POST /voice-samples"
DELETE_SAMPLE == "DELETE /voice-samples/{sample_id}"

Sample(id, is_named, created_at) ==
    [id |-> id, is_named |-> is_named, created_at |-> created_at]

RECURSIVE sort_by_created_at(_)
sort_by_created_at(list) ==
    IF list = <<>> THEN <<>>
    ELSE LET i == CHOOSE i \in 1..Len(list) :
                     \A k \in 1..Len(list) :
                        \/ list[i].created_at < list[k].created_at
                        \/ (list[i].created_at = list[k].created_at /\ i <= k)
         IN  <<list[i]>> \o sort_by_created_at(SubSeq(list, 1, i - 1)
                                               \o SubSeq(list, i + 1, Len(list)))

DropOldest(list) ==
    IF Len(list) > MAX_DEFAULT_SAMPLES
    THEN SubSeq(list, Len(list) - MAX_DEFAULT_SAMPLES + 1, Len(list))
    ELSE list

\* _cleanup_old_default_samples: the named samples, then the newest
\* MAX_DEFAULT_SAMPLES unnamed ones, oldest first.
cleanup_old_default_samples(list) ==
    SelectSeq(list, LAMBDA x : x.is_named)
        \o DropOldest(sort_by_created_at(SelectSeq(list, LAMBDA x : ~x.is_named)))

SampleIds(catalogue) == {catalogue.metadata[i].id : i \in 1..Len(catalogue.metadata)}

Now(catalogue) ==
    IF catalogue.metadata = <<>> THEN 1
    ELSE 1 + (CHOOSE t \in {catalogue.metadata[i].created_at :
                                i \in 1..Len(catalogue.metadata)} :
                 \A i \in 1..Len(catalogue.metadata) :
                    catalogue.metadata[i].created_at <= t)

\* POST /voice-samples.  No Depends(verify_api_key): the handler runs for
\* every caller.  400 when the audio does not decode; else the .wav file is
\* written, the sample appended, old unnamed samples and their files dropped.
save_voice_sample(r) ==
    /\ rpc[r] = "arrived"
    /\ req[r].endpoint = SAVE_SAMPLE
    /\ IF ~req[r].sample.audio_ok
       THEN /\ response' = [response EXCEPT ![r] =
                               Some(Response(400, "Invalid audio data", <<>>, {}))]
            /\ UNCHANGED samples
       ELSE LET sample == Sample(<<"sample", r>>, req[r].sample.is_named, Now(samples))
                kept == cleanup_old_default_samples(Append(samples.metadata, sample))
                keptIds == {kept[i].id : i \in 1..Len(kept)}
                dropped == (SampleIds(samples) \cup {sample.id}) \ keptIds
            IN  /\ samples' = [metadata |-> kept,
                               files |-> (samples.files \cup {sample.id}) \ dropped]
                /\ response' = [response EXCEPT ![r] =
                                   Some(Response(200, "", sample, {}))]
    /\ rpc' = [rpc EXCEPT ![r] = "answered"]
    /\ UNCHANGED <<fileVars, startVars, beatVars, keyVars, healthVars, brokerVars, JOB_TIMEOUT, workerVars, req, api_key_info,
                   queue_position, elapsed, wake, sleeps, waited, historyVars>>

\* DELETE /voice-samples/{sample_id}.  No Depends(verify_api_key) either.
delete_voice_sample(r) ==
    /\ rpc[r] = "arrived"
    /\ req[r].endpoint = DELETE_SAMPLE
    /\ IF req[r].sample.id \notin SampleIds(samples)
       THEN /\ response' = [response EXCEPT ![r] =
                               Some(Response(404, "Voice sample not found", <<>>, {}))]
            /\ UNCHANGED samples
       ELSE /\ samples' = [metadata |-> SelectSeq(samples.metadata,
                                                  LAMBDA x : x.id # req[r].sample.id),
                           files |-> samples.files \ {req[r].sample.id}]
            /\ response' = [response EXCEPT ![r] =
                               Some(Response(200, "", [status |-> "deleted",
                                                       id |-> req[r].sample.id], {}))]
    /\ rpc' = [rpc EXCEPT ![r] = "answered"]
    /\ UNCHANGED <<fileVars, startVars, beatVars, keyVars, healthVars, brokerVars, JOB_TIMEOUT, workerVars, req, api_key_info,
                   queue_position, elapsed, wake, sleeps, waited, historyVars>>

\* ------------------------------------------------------------ the worker
\* TTSWorker.__init__: an unknown quality falls back to "high".
worker_quality(cfg) == IF cfg \in QUALITY_PRESETS THEN cfg ELSE "high"

\* The qualities the workers are started with.  Which worker is which does
\* not matter, so the assignments are taken up to renaming of the workers.
WorkerQualities ==
    {f \in [Workers -> {worker_quality(c) : c \in QualityConfigs}] :
        \A w1, w2 \in Workers : (w1 < w2 /\ f[w1] = QUALITY_FAST) => f[w2] = QUALITY_FAST}

\* run() up to the loop: connect, ping, load the model, register.
worker_start(w) ==
    /\ wpc[w] = "init"
    /\ workerKey' = [workerKey EXCEPT ![w] = quality[w]]
    /\ running' = [running EXCEPT ![w] = TRUE]
    /\ tts_api' = [tts_api EXCEPT ![w] = TRUE]
    /\ wpc' = [wpc EXCEPT ![w] = "loop"]
    /\ UNCHANGED <<restVars, signalled, queue, blocked, status, result, metrics, apikey, JOB_TIMEOUT,
                   quality, job, wresult, gatewayVars, historyVars>>

\* _signal_handler: SIGTERM or SIGINT while the worker runs.
signal_handler(w) ==
    /\ wpc[w] \notin {"init", "stopped"}
    /\ running[w]
    /\ running' = [running EXCEPT ![w] = FALSE]
    /\ signalled' = [signalled EXCEPT ![w] = TRUE]
    /\ UNCHANGED <<restVars, tts_api, brokerVars, JOB_TIMEOUT, quality, wpc, job, wresult,
                   gatewayVars, historyVars>>

\* run, step by step up to the loop (worker_start is the same in one step).
StartingUp == {"init", "load_model", "register", "set_running"}

\* run: RedisClient(redis_url) and ping(); RuntimeError when it is False,
\* raised before the try, so that nothing else of run is executed.
run_ping(w) ==
    /\ wpc[w] = "init"
    /\ wpc' = [wpc EXCEPT ![w] = IF brokerUp THEN "load_model" ELSE "failed"]
    /\ UNCHANGED <<outerVars, brokerVars, JOB_TIMEOUT, quality, running, job, wresult,
                   gatewayVars, historyVars>>

\* Mutant: a load that registers the worker as it goes.
load_model_registered(w) ==
    /\ wpc[w] = "load_model"
    /\ workerKey' = [workerKey EXCEPT ![w] = quality[w]]
    /\ wpc' = [wpc EXCEPT ![w] = "register"]
    /\ UNCHANGED <<outerVars, queue, blocked, status, result, metrics, apikey, JOB_TIMEOUT,
                   quality, running, job, wresult, gatewayVars, historyVars>>

\* run: _load_model().
load_model(w) ==
    /\ wpc[w] = "load_model"
    /\ tts_api' = [tts_api EXCEPT ![w] = TRUE]
    /\ wpc' = [wpc EXCEPT ![w] = "register"]
    /\ UNCHANGED <<restVars, signalled, brokerVars, JOB_TIMEOUT, quality, running, job,
                   wresult, gatewayVars, historyVars>>

\* run: register_worker(worker_id, quality).
run_register(w) ==
    /\ wpc[w] = "register"
    /\ workerKey' = [workerKey EXCEPT ![w] = quality[w]]
    /\ wpc' = [wpc EXCEPT ![w] = "set_running"]
    /\ UNCHANGED <<outerVars, queue, blocked, status, result, metrics, apikey, JOB_TIMEOUT,
                   quality, running, job, wresult, gatewayVars, historyVars>>

\* run: self.running = True, whatever it was.
run_set_running(w) ==
    /\ wpc[w] = "set_running"
    /\ running' = [running EXCEPT ![w] = TRUE]
    /\ wpc' = [wpc EXCEPT ![w] = "loop"]
    /\ UNCHANGED <<outerVars, brokerVars, JOB_TIMEOUT, quality, job, wresult,
                   gatewayVars, historyVars>>

\* _signal_handler while run is on its way to the loop (the handlers are
\* installed by __init__): self.running = False, which it already is.
signal_handler_starting(w) ==
    /\ wpc[w] \in StartingUp
    /\ ~signalled[w]
    /\ running' = [running EXCEPT ![w] = FALSE]
    /\ signalled' = [signalled EXCEPT ![w] = TRUE]
    /\ UNCHANGED <<restVars, tts_api, brokerVars, JOB_TIMEOUT, quality, wpc, job, wresult,
                   gatewayVars, historyVars>>

\* while self.running: _update_heartbeat(); then the call of dequeue_job.
run_loop_test(w) ==
    /\ wpc[w] = "loop"
    /\ IF running[w]
       THEN /\ wpc' = [wpc EXCEPT ![w] = "dequeue"]
            /\ \/ workerKey' = [workerKey EXCEPT ![w] = quality[w]]
               \/ UNCHANGED workerKey
       ELSE /\ wpc' = [wpc EXCEPT ![w] = "cleanup"]
            /\ UNCHANGED workerKey
    /\ UNCHANGED <<outerVars, queue, blocked, status, result, metrics, apikey, JOB_TIMEOUT,
                   quality, running, job, wresult, gatewayVars, historyVars>>

\* dequeue_job: BRPOP on the worker's list.  A value present is removed and
\* returned at once; otherwise the client blocks.
dequeue_job(w) ==
    /\ wpc[w] = "dequeue"
    /\ LET key == get_queue_key(quality[w]) IN
       IF queue[key] # <<>>
       THEN LET got == json_loads(rpop_value(queue[key])) IN
            /\ queue' = [queue EXCEPT ![key] = rpop_rest(@)]
            /\ job' = [job EXCEPT ![w] = Some(got)]
            /\ wpc' = [wpc EXCEPT ![w] = "process"]
            /\ popLog' = [popLog EXCEPT ![key] = Append(@, got.job_id)]
            /\ dequeuedBy' = [dequeuedBy EXCEPT ![got.job_id] = Append(@, w)]
            /\ UNCHANGED blocked
       ELSE /\ blocked' = [blocked EXCEPT ![key] = Append(@, w)]
            /\ wpc' = [wpc EXCEPT ![w] = "blocked"]
            /\ UNCHANGED <<queue, job, popLog, dequeuedBy>>
    /\ UNCHANGED <<outerVars, status, result, workerKey, metrics, apikey, JOB_TIMEOUT,
                   quality, running, wresult, gatewayVars, pushLog, enqueued,
                   resultWrites, processingLog, storedInTime,
                   statusLog, ttlExpired>>

\* BRPOP's timeout (5 s) ends with nothing pushed: dequeue_job returns None.
dequeue_job_timeout(w) ==
    /\ wpc[w] = "blocked"
    /\ blocked' = [blocked EXCEPT ![get_queue_key(quality[w])] = RemoveFrom(@, w)]
    /\ wpc' = [wpc EXCEPT ![w] = "loop"]
    /\ UNCHANGED <<outerVars, queue, status, result, workerKey, metrics, apikey, JOB_TIMEOUT,
                   quality, running, job, wresult, gatewayVars, historyVars>>

VoiceCloning(jb) == jb.reference_audio # None /\ jb.reference_text # None

\* Mutant: an error result that carries the message only.
error_result_without_code(message, code) ==
    [status |-> ERROR, error |-> message]

error_result(message, code) ==
    [status |-> ERROR, error |-> message, error_code |-> code]

completed_result(audio_bytes, audio_duration, generation_time) ==
    [status |-> COMPLETED, audio |-> b64encode(audio_bytes),
     generation_time |-> generation_time,
     audio_duration |-> audio_duration]

\* Mutant: a counter that moves by two.
increment_metric_by_two(m, name) == [m EXCEPT ![name] = @ + 2]

increment_metric(m, name) == [m EXCEPT ![name] = @ + 1]

\* finally: the temporary file named by ref_audio_path, if any, unlinked.
unlink_reference(w) ==
    /\ tmpfiles' = IF ref_audio_path[w] # NIL THEN tmpfiles \ {The(ref_audio_path[w])}
                   ELSE tmpfiles
    /\ ref_audio_path' = [ref_audio_path EXCEPT ![w] = NIL]

\* _process_job up to set_job_status: the reference audio, if any, decoded,
\* trimmed and exported to a temporary file without error; then SET status
\* 'processing'.
process_job_set_processing(w) ==
    /\ wpc[w] = "process"
    /\ LET j == The(job[w]).job_id IN
        /\ status' = [status EXCEPT ![j] = PROCESSING]
        /\ statusLog' = [statusLog EXCEPT ![j] = Append(@, PROCESSING)]
        /\ ttlExpired' = ttlExpired \ {<<"status", j>>}
        /\ processingLog' = Append(processingLog, j)
        /\ IF VoiceCloning(The(job[w]))
           THEN /\ tmpfiles' = tmpfiles \cup {j}
                /\ ref_audio_path' = [ref_audio_path EXCEPT ![w] = Some(j)]
           ELSE UNCHANGED fileVars
    /\ wpc' = [wpc EXCEPT ![w] = "synthesize"]
    /\ UNCHANGED <<otherVars, queue, blocked, result, workerKey, metrics, apikey,
                   JOB_TIMEOUT, quality, running, job, wresult, gatewayVars,
                   pushLog, popLog, enqueued, dequeuedBy, resultWrites,
                   storedInTime>>

\* _process_job when audio.export raises inside the with block: the
\* temporary file has been created (delete=False) and ref_audio_path is
\* not yet assigned, so the finally clause unlinks nothing.  It differs
\* from process_job_reference_fails in the file only.
process_job_export_fails(w) ==
    /\ wpc[w] = "process"
    /\ VoiceCloning(The(job[w]))
    /\ tmpfiles' = tmpfiles \cup {The(job[w]).job_id}
    /\ UNCHANGED ref_audio_path
    /\ wresult' = [wresult EXCEPT ![w] = Some(error_result("cannot export", "OSError"))]
    /\ metrics' = increment_metric(metrics, "jobs_failed")
    /\ wpc' = [wpc EXCEPT ![w] = "store_result"]
    /\ UNCHANGED <<otherVars, queue, blocked, status, result, workerKey, apikey, JOB_TIMEOUT,
                   quality, running, job, gatewayVars, historyVars>>

\* _process_job when decoding or trimming the reference audio raises (no
\* temporary file yet): the except block builds the error result and
\* increments jobs_failed.
process_job_reference_fails(w) ==
    /\ wpc[w] = "process"
    /\ VoiceCloning(The(job[w]))
    /\ wresult' = [wresult EXCEPT ![w] =
                      Some(error_result("cannot decode reference", "CouldntDecodeError"))]
    /\ metrics' = increment_metric(metrics, "jobs_failed")
    /\ wpc' = [wpc EXCEPT ![w] = "store_result"]
    /\ UNCHANGED <<outerVars, queue, blocked, status, result, workerKey, apikey, JOB_TIMEOUT,
                   quality, running, job, gatewayVars, historyVars>>

\* The engine's audio for a job and the durations it may report (seconds).
EngineAudio(jb) == <<"wav", jb.job_id>>
EngineDurations == {3}

\* What the worker may measure as generation_time (seconds).
GenerationTimes == {2}

\* synthesize_to_bytes returns: the completed result, jobs_completed + 1.
process_job_completed(w) ==
    /\ wpc[w] = "synthesize"
    /\ \E d \in EngineDurations, g \in GenerationTimes :
        wresult' = [wresult EXCEPT ![w] =
                       Some(completed_result(EngineAudio(The(job[w])), d, g))]
    /\ metrics' = increment_metric(metrics, "jobs_completed")
    /\ unlink_reference(w)
    /\ wpc' = [wpc EXCEPT ![w] = "store_result"]
    /\ UNCHANGED <<otherVars, queue, blocked, status, result, workerKey, apikey, JOB_TIMEOUT,
                   quality, running, job, gatewayVars, historyVars>>

\* synthesize_to_bytes raises: the error result, jobs_failed + 1.
process_job_failed(w) ==
    /\ wpc[w] = "synthesize"
    /\ wresult' = [wresult EXCEPT ![w] =
                      Some(error_result("synthesis failed", "RuntimeError"))]
    /\ metrics' = increment_metric(metrics, "jobs_failed")
    /\ unlink_reference(w)
    /\ wpc' = [wpc EXCEPT ![w] = "store_result"]
    /\ UNCHANGED <<otherVars, queue, blocked, status, result, workerKey, apikey, JOB_TIMEOUT,
                   quality, running, job, gatewayVars, historyVars>>

\* The result reaches the broker before the deadline of the job's waiter.
BeforeDeadline(j) == rpc[j] # "done" /\ rpc[j] # "respond" /\ elapsed[j] < JOB_TIMEOUT

\* Mutant: a store_result that goes to the status without writing the result.
store_result_without_result(w) ==
    /\ wpc[w] = "store_result"
    /\ wpc' = [wpc EXCEPT ![w] = "store_status"]
    /\ UNCHANGED <<outerVars, brokerVars, JOB_TIMEOUT, quality, running, job, wresult,
                   gatewayVars, historyVars>>

\* store_result's first command: SET tts:result:{job_id}.
store_result_set_result(w) ==
    /\ wpc[w] = "store_result"
    /\ LET j == The(job[w]).job_id IN
        /\ result' = [result EXCEPT ![j] = json_dumps(The(wresult[w]))]
        /\ ttlExpired' = ttlExpired \ {<<"result", j>>}
        /\ resultWrites' = [resultWrites EXCEPT ![j] = @ + 1]
        /\ storedInTime' = [storedInTime EXCEPT ![j] = @ \/ BeforeDeadline(j)]
    /\ wpc' = [wpc EXCEPT ![w] = "store_status"]
    /\ UNCHANGED <<outerVars, queue, blocked, status, workerKey, metrics, apikey, JOB_TIMEOUT,
                   quality, running, job, wresult, gatewayVars, pushLog, popLog,
                   enqueued, dequeuedBy, processingLog,
                   statusLog>>

\* store_result's second command: SET tts:status:{job_id} to the result's
\* status; back to the loop test.
store_result_set_status(w) ==
    /\ wpc[w] = "store_status"
    /\ LET j == The(job[w]).job_id IN
        /\ status' = [status EXCEPT ![j] = The(wresult[w]).status]
        /\ statusLog' = [statusLog EXCEPT ![j] = Append(@, The(wresult[w]).status)]
        /\ ttlExpired' = ttlExpired \ {<<"status", j>>}
    /\ job' = [job EXCEPT ![w] = NIL]
    /\ wresult' = [wresult EXCEPT ![w] = NIL]
    /\ wpc' = [wpc EXCEPT ![w] = "loop"]
    /\ UNCHANGED <<outerVars, queue, blocked, result, workerKey, metrics, apikey, JOB_TIMEOUT,
                   quality, running, gatewayVars, pushLog, popLog, enqueued,
                   dequeuedBy, resultWrites, processingLog, storedInTime>>

\* Mutant: an exit that leaves the worker's key in the broker.
run_cleanup_keeps_key(w) ==
    /\ wpc[w] = "cleanup"
    /\ wpc' = [wpc EXCEPT ![w] = "stopped"]
    /\ UNCHANGED <<outerVars, brokerVars, JOB_TIMEOUT,
                   quality, running, job, wresult, gatewayVars, historyVars>>

\* finally: unregister_worker, close.
run_cleanup(w) ==
    /\ wpc[w] = "cleanup"
    /\ workerKey' = [workerKey EXCEPT ![w] = None]
    /\ wpc' = [wpc EXCEPT ![w] = "stopped"]
    /\ UNCHANGED <<outerVars, queue, blocked, status, result, metrics, apikey, JOB_TIMEOUT,
                   quality, running, job, wresult, gatewayVars, historyVars>>

\* ------------------------------------------------ the heartbeat's timing
\* Time in whole seconds.  An idle worker spends its time in BRPOP, which
\* returns None after DEQUEUE_TIMEOUT, and under a second from one
\* heartbeat test to the next in the statements around it.
HEARTBEAT_INTERVAL == 30
DEQUEUE_TIMEOUT == 5
WORKER_HEARTBEAT_TTL == 60
LoopOverhead == 1

\* Mutant: a heartbeat that is never due.
heartbeat_never_due(elapsed_since) == FALSE

\* _update_heartbeat: now - self.last_heartbeat >= self.heartbeat_interval.
heartbeat_due(elapsed_since) == elapsed_since >= HEARTBEAT_INTERVAL

Zeroed(clock, w) == [clock EXCEPT ![w] = 0]

\* run up to the loop, with register_worker starting the key's TTL and
\* self.last_heartbeat = time.time().
timed_worker_start(w) ==
    /\ wpc[w] = "init"
    /\ workerKey' = [workerKey EXCEPT ![w] = quality[w]]
    /\ running' = [running EXCEPT ![w] = TRUE]
    /\ tts_api' = [tts_api EXCEPT ![w] = TRUE]
    /\ since_heartbeat' = Zeroed(since_heartbeat, w)
    /\ key_age' = Zeroed(key_age, w)
    /\ wpc' = [wpc EXCEPT ![w] = "loop"]
    /\ UNCHANGED <<samples, keyVars, healthVars, fileVars, signalled, blocked_for, loop_for,
                   queue, blocked, status, result, metrics, apikey, JOB_TIMEOUT,
                   quality, job, wresult, gatewayVars, historyVars>>

\* while self.running: _update_heartbeat(), which rewrites the key (SET
\* with ex=WORKER_HEARTBEAT_TTL) when the interval has elapsed; then the
\* call of dequeue_job.
timed_loop_test(w) ==
    /\ wpc[w] = "loop"
    /\ IF running[w]
       THEN /\ wpc' = [wpc EXCEPT ![w] = "dequeue"]
            /\ IF heartbeat_due(since_heartbeat[w])
               THEN /\ workerKey' = [workerKey EXCEPT ![w] = quality[w]]
                    /\ since_heartbeat' = Zeroed(since_heartbeat, w)
                    /\ key_age' = Zeroed(key_age, w)
               ELSE UNCHANGED <<workerKey, since_heartbeat, key_age>>
       ELSE /\ wpc' = [wpc EXCEPT ![w] = "cleanup"]
            /\ UNCHANGED <<workerKey, since_heartbeat, key_age>>
    /\ blocked_for' = Zeroed(blocked_for, w)
    /\ loop_for' = Zeroed(loop_for, w)
    /\ UNCHANGED <<samples, keyVars, healthVars, fileVars, startVars,
                   queue, blocked, status, result, metrics, apikey, JOB_TIMEOUT,
                   quality, running, job, wresult, gatewayVars, historyVars>>

\* BRPOP's timeout ends with nothing pushed: dequeue_job returns None and
\* the loop continues.
timed_dequeue_job_timeout(w) ==
    /\ wpc[w] = "blocked"
    /\ blocked_for[w] = DEQUEUE_TIMEOUT
    /\ blocked' = [blocked EXCEPT ![get_queue_key(quality[w])] = RemoveFrom(@, w)]
    /\ blocked_for' = Zeroed(blocked_for, w)
    /\ wpc' = [wpc EXCEPT ![w] = "loop"]
    /\ UNCHANGED <<samples, keyVars, healthVars, fileVars, startVars, loop_for, since_heartbeat,
                   key_age, queue, status, result, workerKey, metrics, apikey,
                   JOB_TIMEOUT, quality, running, job, wresult, gatewayVars,
                   historyVars>>

\* The TTL of tts:worker:{id} has run out.
timed_expire_worker(w) ==
    /\ workerKey[w] # None
    /\ key_age[w] >= WORKER_HEARTBEAT_TTL
    /\ workerKey' = [workerKey EXCEPT ![w] = None]
    /\ UNCHANGED <<outerVars, queue, blocked, status, result, metrics, apikey, JOB_TIMEOUT,
                   workerVars, gatewayVars, historyVars>>

\* Worker w lets a second pass: in BRPOP before its timeout, around it
\* within the iteration's overhead, or at work on a job for as long as the
\* job takes.
Passing(w) ==
    \/ wpc[w] = "blocked" /\ blocked_for[w] < DEQUEUE_TIMEOUT
    \/ wpc[w] \in {"loop", "dequeue"} /\ loop_for[w] < LoopOverhead
    \/ wpc[w] \in {"process", "synthesize", "store_result", "store_status"}
    \/ wpc[w] \in {"init", "stopped"}

Older(age) == IF age < WORKER_HEARTBEAT_TTL THEN age + 1 ELSE age

\* A second passes, for every worker; no key is kept beyond its TTL.
second_passes ==
    /\ \A w \in Workers : Passing(w)
    /\ \E w \in Workers : wpc[w] \notin {"init", "stopped"}
    /\ \A w \in Workers : workerKey[w] # None => key_age[w] < WORKER_HEARTBEAT_TTL
    /\ since_heartbeat' = [w \in Workers |->
                             IF wpc[w] \in {"init", "stopped"} THEN since_heartbeat[w]
                             ELSE Older(since_heartbeat[w])]
    /\ key_age' = [w \in Workers |->
                     IF workerKey[w] = None THEN key_age[w] ELSE Older(key_age[w])]
    /\ blocked_for' = [w \in Workers |->
                         IF wpc[w] = "blocked" /\ blocked_for[w] < DEQUEUE_TIMEOUT
                         THEN blocked_for[w] + 1 ELSE blocked_for[w]]
    /\ loop_for' = [w \in Workers |->
                      IF wpc[w] \in {"loop", "dequeue"} /\ loop_for[w] < LoopOverhead
                      THEN loop_for[w] + 1 ELSE loop_for[w]]
    /\ UNCHANGED <<samples, keyVars, healthVars, fileVars, startVars, brokerVars,
                   JOB_TIMEOUT, workerVars, gatewayVars, historyVars>>

\* ------------------------------------------------------------- a crash
\* The worker process dies where it stands (killed, out of memory, power):
\* no except or finally clause of run runs, and the broker closes its
\* connection, which ends a BRPOP it was waiting in.  Its key stays until
\* the TTL.
crash(w) ==
    /\ wpc[w] \notin {"init", "stopped", "crashed"}
    /\ wpc' = [wpc EXCEPT ![w] = "crashed"]
    /\ blocked' = [k \in QueueKeys |-> SelectSeq(blocked[k], LAMBDA x : x # w)]
    /\ UNCHANGED <<outerVars, queue, status, result, workerKey, metrics, apikey, JOB_TIMEOUT,
                   quality, running, job, wresult, gatewayVars, historyVars>>

\* ------------------------------------------------- the read-only endpoints
HEALTH == "/health"
JOB_STATUS == "/job/{job_id}"
JOB_AUDIO == "/job/{job_id}/audio"
ProbeEndpoints == {HEALTH, JOB_STATUS, JOB_AUDIO}

\* A broker command raised (ConnectionError) and nothing caught it.
InternalServerError == Response(500, "Internal Server Error", <<>>, {})

\* scan_iter("tts:worker:*"): the ids of the worker keys that exist.
scan_worker_keys == {w \in Workers : workerKey[w] # None}

\* get_workers_by_quality, for one key of the scan: the list the worker is
\* appended to, given what GET returned.  A key gone since the scan reads
\* as None, json.loads(None) raises TypeError, and the except clause
\* appends to 'high'.
listed_as(worker_data) ==
    IF worker_data = None THEN {QUALITY_HIGH} ELSE {worker_data}

\* The lists with worker w appended as GET's value says.
workers_append(by_quality, w, worker_data) ==
    [q \in DOMAIN by_quality |->
        IF q \in listed_as(worker_data) THEN by_quality[q] \cup {w} ELSE by_quality[q]]

\* The status answer of get_job_status, from the status and result read.
job_status_answer(j, st, res) ==
    IF st = PENDING
    THEN JobStatusResponse(j, PENDING, Some(get_queue_position(j, QUALITY_HIGH)),
                           NIL, NIL, NIL)
    ELSE IF st = COMPLETED /\ res # NIL
    THEN JobStatusResponse(j, COMPLETED, NIL, Some(<<"/job/", j, "/audio">>),
                           IF "generation_time" \in DOMAIN The(res)
                           THEN Some(The(res).generation_time) ELSE NIL,
                           NIL)
    ELSE IF st = ERROR /\ res # NIL
    THEN JobStatusResponse(j, ERROR, NIL, NIL, NIL,
                           IF "error" \in DOMAIN The(res)
                           THEN Some(The(res).error) ELSE NIL)
    ELSE JobStatusResponse(j, st, NIL, NIL, NIL, NIL)

\* get_metrics: HGETALL, the fields that HINCRBY has created.
get_metrics == [k \in {f \in DOMAIN metrics : metrics[f] > 0} |-> metrics[k]]

NoLocals ==
    [scan |-> {}, by_quality |-> [high |-> {}, fast |-> {}], all_workers |-> {},
     metrics |-> <<>>, queue_sizes |-> [high |-> 0, fast |-> 0], ping |-> FALSE,
     job_id |-> 0, status |-> None]

HealthResponse(ping, queue_size, locals) ==
    [status_code |-> 200,
     status |-> IF ping THEN "healthy" ELSE "unhealthy",
     queue_size |-> queue_size,
     workers |-> [active |-> Cardinality(locals.all_workers),
                  ids |-> locals.all_workers,
                  by_quality |-> locals.by_quality],
     metrics |-> IF locals.metrics # <<>> THEN Some(locals.metrics) ELSE NIL,
     queue_sizes |-> locals.queue_sizes]

\* A request to one of the read-only endpoints reaches its handler (from
\* localhost: the gate reads nothing).
probe_arrives ==
    /\ ppc = "unsent"
    /\ \E e \in ProbeEndpoints : pep' = e
    /\ ppc' = "arrived"
    /\ UNCHANGED <<fileVars, startVars, beatVars, samples, keyVars, brokerUp, plocals, presp, brokerVars, JOB_TIMEOUT,
                   workerVars, gatewayVars, historyVars>>

\* One broker read of health: it raises when the broker is down.
HealthRead(at, next, locals) ==
    /\ ppc = at
    /\ pep = HEALTH
    /\ IF brokerUp
       THEN /\ plocals' = locals
            /\ ppc' = next
            /\ UNCHANGED presp
       ELSE /\ presp' = Some(InternalServerError)
            /\ ppc' = "done"
            /\ UNCHANGED plocals
    /\ UNCHANGED <<fileVars, startVars, beatVars, samples, keyVars, brokerUp, pep, brokerVars, JOB_TIMEOUT,
                   workerVars, gatewayVars, historyVars>>

\* health: workers_by_quality = get_workers_by_quality(), its scan of the
\* worker keys.
health_workers_scan ==
    HealthRead("arrived", IF scan_worker_keys = {} THEN "by_quality" ELSE "scanned",
               [plocals EXCEPT !.scan = scan_worker_keys])

\* get_workers_by_quality: GET of one scanned key, and the append.
health_workers_get ==
    \E w \in plocals.scan :
        HealthRead("scanned", IF plocals.scan = {w} THEN "by_quality" ELSE "scanned",
                   [plocals EXCEPT !.scan = @ \ {w},
                                   !.by_quality = workers_append(@, w, workerKey[w])])

\* health: all_workers = get_active_workers()
health_active_workers ==
    HealthRead("by_quality", "workers", [plocals EXCEPT !.all_workers = get_active_workers])

\* health: metrics = get_metrics()
health_metrics ==
    HealthRead("workers", "metrics", [plocals EXCEPT !.metrics = get_metrics])

\* health: queue_sizes = get_queue_sizes()
health_queue_sizes ==
    HealthRead("metrics", "sizes", [plocals EXCEPT !.queue_sizes = get_queue_sizes])

\* health: ping(), which catches what the command raises.
health_ping ==
    /\ ppc = "sizes"
    /\ pep = HEALTH
    /\ plocals' = [plocals EXCEPT !.ping = brokerUp]
    /\ ppc' = "pinged"
    /\ UNCHANGED <<fileVars, startVars, beatVars, samples, keyVars, brokerUp, pep, presp, brokerVars, JOB_TIMEOUT,
                   workerVars, gatewayVars, historyVars>>

\* health: queue_size = get_queue_size(), and the response.
health_respond ==
    /\ ppc = "pinged"
    /\ pep = HEALTH
    /\ presp' = IF brokerUp
                THEN Some(HealthResponse(plocals.ping, get_queue_size_total, plocals))
                ELSE Some(InternalServerError)
    /\ ppc' = "done"
    /\ UNCHANGED <<fileVars, startVars, beatVars, samples, keyVars, brokerUp, pep, plocals, brokerVars, JOB_TIMEOUT,
                   workerVars, gatewayVars, historyVars>>

\* GET /job/{job_id}: status = get_job_status(job_id), 404 without it.
job_status_get_status ==
    /\ ppc = "arrived"
    /\ pep = JOB_STATUS
    /\ \E j \in Jobs :
          IF ~brokerUp \/ get_job_status(j) = None
          THEN /\ presp' = IF ~brokerUp THEN Some(InternalServerError)
                           ELSE Some([status_code |-> 404, detail |-> "Job not found"])
               /\ ppc' = "done"
               /\ UNCHANGED plocals
          ELSE /\ plocals' = [plocals EXCEPT !.job_id = j, !.status = get_job_status(j)]
               /\ ppc' = "status_read"
               /\ UNCHANGED presp
    /\ UNCHANGED <<fileVars, startVars, beatVars, samples, keyVars, brokerUp, pep, brokerVars, JOB_TIMEOUT,
                   workerVars, gatewayVars, historyVars>>

\* GET /job/{job_id}: result = get_result(job_id), and the response.
job_status_respond ==
    /\ ppc = "status_read"
    /\ presp' = IF ~brokerUp THEN Some(InternalServerError)
                ELSE Some(job_status_answer(plocals.job_id, plocals.status,
                                            get_result(plocals.job_id)))
    /\ ppc' = "done"
    /\ UNCHANGED <<fileVars, startVars, beatVars, samples, keyVars, brokerUp, pep, plocals, brokerVars, JOB_TIMEOUT,
                   workerVars, gatewayVars, historyVars>>

\* GET /job/{job_id}/audio for some job id.
job_probe ==
    /\ ppc = "arrived"
    /\ pep = JOB_AUDIO
    /\ \E j \in Jobs :
          presp' = IF ~brokerUp THEN Some(InternalServerError)
                   ELSE Some(get_job_audio(j))
    /\ ppc' = "done"
    /\ UNCHANGED <<fileVars, startVars, beatVars, samples, keyVars, brokerUp, pep, plocals, brokerVars, JOB_TIMEOUT,
                   workerVars, gatewayVars, historyVars>>

\* ------------------------------------------------------------ key expiry
\* The TTL of tts:worker:{id} (WORKER_HEARTBEAT_TTL = 60 s) runs out: the
\* worker has not come back to its loop test within the minute.
expire_worker(w) ==
    /\ workerKey[w] # None
    /\ workerKey' = [workerKey EXCEPT ![w] = None]
    /\ UNCHANGED <<outerVars, queue, blocked, status, result, metrics, apikey, JOB_TIMEOUT,
                   workerVars, gatewayVars, historyVars>>

\* The TTL of tts:result:{id} and tts:status:{id} (RESULT_TTL = 300 s) runs
\* out.  JOB_TIMEOUT is below RESULT_TTL, so no key of a job expires while
\* the job's submission is still being handled.
expire_result(j) ==
    /\ rpc[j] = "done"
    /\ result[j] # {}
    /\ result' = [result EXCEPT ![j] = {}]
    /\ ttlExpired' = ttlExpired \cup {<<"result", j>>}
    /\ UNCHANGED <<outerVars, queue, blocked, status, workerKey, metrics, apikey, JOB_TIMEOUT,
                   workerVars, gatewayVars, pushLog, popLog, enqueued, dequeuedBy,
                   resultWrites, processingLog, storedInTime,
                   statusLog>>

expire_status(j) ==
    /\ rpc[j] = "done"
    /\ status[j] # None
    /\ status' = [status EXCEPT ![j] = None]
    /\ ttlExpired' = ttlExpired \cup {<<"status", j>>}
    /\ UNCHANGED <<outerVars, queue, blocked, result, workerKey, metrics, apikey, JOB_TIMEOUT,
                   workerVars, gatewayVars, pushLog, popLog, enqueued, dequeuedBy,
                   resultWrites, processingLog, storedInTime,
                   statusLog>>

\* -------------------------------------------------- the credential store
\* manage_keys.py create: create_key.  The token is random: any key
\* generate_api_key can return that it has not returned before.
cmd_create ==
    \E full_key \in GeneratedKeys, name \in KeyNames :
        /\ \A i \in 1..Len(issued) : issued[i] # full_key
        /\ apikey' = create_key(apikey, full_key, name)
        /\ issued' = Append(issued, full_key)
        /\ live' = live \cup {full_key}
        /\ UNCHANGED <<fileVars, startVars, beatVars, samples, healthVars, ipc, iread, deleteLog, queue, blocked, status, result,
                       workerKey, metrics, JOB_TIMEOUT, workerVars, gatewayVars,
                       historyVars>>

\* manage_keys.py delete: delete_key.
cmd_delete ==
    \E key_id \in KeyIds :
        /\ Len(deleteLog) < MaxDeletes
        /\ deleteLog' = Append(deleteLog, <<key_id, delete_key_returns(apikey, key_id)>>)
        /\ apikey' = delete_key(apikey, key_id)
        /\ live' = {k \in live : k.key_id # key_id}
        /\ UNCHANGED <<fileVars, startVars, beatVars, samples, healthVars, ipc, iread, issued, queue, blocked, status, result,
                       workerKey, metrics, JOB_TIMEOUT, workerVars, gatewayVars,
                       historyVars>>

\* The credential and the seconds the concurrent callers charge.
ChargedKey == "k1"
ChargedSeconds == 5

\* increment_usage in a process of its own, first command: GET.
increment_usage_get(c) ==
    /\ ipc[c] = "idle"
    /\ iread' = [iread EXCEPT ![c] = apikey[ChargedKey]]
    /\ ipc' = [ipc EXCEPT ![c] = IF apikey[ChargedKey] # NIL THEN "read" ELSE "done"]
    /\ UNCHANGED <<fileVars, startVars, beatVars, samples, healthVars, issued, live, deleteLog, brokerVars, JOB_TIMEOUT,
                   workerVars, gatewayVars, historyVars>>

\* increment_usage, second command: SET the record read, incremented.
increment_usage_set(c) ==
    /\ ipc[c] = "read"
    /\ apikey' = [apikey EXCEPT ![ChargedKey] =
                     increment_usage([apikey EXCEPT ![ChargedKey] = iread[c]],
                                     ChargedKey, ChargedSeconds)[ChargedKey]]
    /\ ipc' = [ipc EXCEPT ![c] = "done"]
    /\ UNCHANGED <<fileVars, startVars, beatVars, samples, healthVars, iread, issued, live, deleteLog, queue, blocked, status,
                   result, workerKey, metrics, JOB_TIMEOUT, workerVars, gatewayVars,
                   historyVars>>

\* ------------------------------------------------------ the specifications
EmptyStore == [k \in KeyIds |-> NIL]

\* The store after create_key has returned each of `keys`, in order.
RECURSIVE StoreOf(_)
StoreOf(keys) ==
    IF keys = <<>> THEN EmptyStore
    ELSE create_key(StoreOf(SubSeq(keys, 1, Len(keys) - 1)), keys[Len(keys)], "friend")

\* A key that was issued, and one that looks like it but never was.
IssuedKey == FullKey(KEY_PREFIX, KEY_LENGTH, "a", "k1")
ForgedKey == FullKey(KEY_PREFIX, KEY_LENGTH, "b", "k1")

LocalWithKey == Origin("127.0.0.1", <<>>, Some(IssuedKey), NIL)
RemoteWithKey == Origin("10.0.0.5", <<>>, Some(IssuedKey), NIL)

PresentedKeys == {NIL, Some(EmptyKey), Some(IssuedKey), Some(ForgedKey)}

Origins ==
    {Origin(h, f, x, a) : h \in ClientHosts, f \in ForwardedFors,
                          x \in PresentedKeys, a \in PresentedKeys}

NoReference == [reference_audio |-> None, reference_text |-> None]

EmptyCatalogue == [metadata |-> <<>>, files |-> {}]

StoredId(n) == <<"sample", "stored", n>>

FullCatalogue ==
    [metadata |-> [n \in 1..MAX_DEFAULT_SAMPLES |-> Sample(StoredId(n), FALSE, n)],
     files |-> {StoredId(n) : n \in 1..MAX_DEFAULT_SAMPLES}]

SaveBodies == {[audio_ok |-> TRUE, is_named |-> TRUE],
               [audio_ok |-> TRUE, is_named |-> FALSE],
               [audio_ok |-> FALSE, is_named |-> FALSE]}

DeleteTargets == {[id |-> StoredId(1)], [id |-> StoredId(0)]}

VoiceEndpoints == {SAVE_SAMPLE, DELETE_SAMPLE}

\* One request of each endpoint from each origin, and submissions of
\* every shape from a client with a credential.
ApiRequests ==
    {Request(e, o, QUALITY_HIGH, NoReference, NIL) : e \in {SYNC, ASYNC}, o \in Origins}
    \cup {Request(e, RemoteWithKey, q, ref, NIL) :
              e \in {SYNC, ASYNC}, q \in Qualities, ref \in References}
    \cup {Request(SAVE_SAMPLE, o, QUALITY_HIGH, NoReference, b) :
              o \in Origins, b \in SaveBodies}
    \cup {Request(DELETE_SAMPLE, o, QUALITY_HIGH, NoReference, t) :
              o \in Origins, t \in DeleteTargets}

\* The runs with JOB_TIMEOUT drawn from `timeouts`, the workers `launched`
\* started, the requests `sent` drawn from `requests`, the credentials
\* `keys` issued, and the requests either past the credential gate
\* (at = "idle": all of them admitted) or about to meet it (at = "arrived").
World(timeouts, launched, sent, requests, keys, at) ==
    /\ queue = [k \in QueueKeys |-> <<>>]
    /\ blocked = [k \in QueueKeys |-> <<>>]
    /\ status = [j \in Jobs |-> None]
    /\ result = [j \in Jobs |-> {}]
    /\ workerKey = [w \in Workers |-> None]
    /\ metrics = [jobs_completed |-> 0, jobs_failed |-> 0]
    /\ apikey = StoreOf(keys)
    /\ JOB_TIMEOUT \in timeouts
    /\ quality \in WorkerQualities
    /\ running = [w \in Workers |-> FALSE]
    /\ wpc = [w \in Workers |-> IF w \in launched THEN "init" ELSE "stopped"]
    /\ job = [w \in Workers |-> NIL]
    /\ wresult = [w \in Workers |-> NIL]
    /\ rpc = [r \in Jobs |-> IF r \in sent THEN at ELSE "unsent"]
    /\ req \in [Jobs -> requests \cup {DefaultRequest}]
    /\ \A r \in Jobs \ sent : req[r] = DefaultRequest
    /\ \A r \in sent : req[r] \in requests
    /\ api_key_info =
          [r \in Jobs |->
             IF at = "idle"
             THEN key_id_of(verify_api_key(req[r], StoreOf(keys)).key_info)
             ELSE None]
    /\ at = "idle" =>
          \A r \in Jobs : verify_api_key(req[r], StoreOf(keys)).status_code = 200
    /\ samples \in IF \E r \in sent : req[r].endpoint \in VoiceEndpoints
                    THEN {EmptyCatalogue, FullCatalogue}
                    ELSE {EmptyCatalogue}
    /\ ipc = [c \in Callers |-> "idle"]
    /\ iread = [c \in Callers |-> NIL]
    /\ issued = keys
    /\ live = {keys[i] : i \in 1..Len(keys)}
    /\ deleteLog = <<>>
    /\ queue_position = [r \in Jobs |-> 0]
    /\ elapsed = [r \in Jobs |-> 0]
    /\ wake = [r \in Jobs |-> 0]
    /\ sleeps = [r \in Jobs |-> 0]
    /\ waited = [r \in Jobs |-> NIL]
    /\ response = [r \in Jobs |-> NIL]
    /\ pushLog = [k \in QueueKeys |-> <<>>]
    /\ popLog = [k \in QueueKeys |-> <<>>]
    /\ enqueued = [k \in QueueKeys |-> 0]
    /\ dequeuedBy = [j \in Jobs |-> <<>>]
    /\ resultWrites = [j \in Jobs |-> 0]
    /\ processingLog = <<>>
    /\ storedInTime = [j \in Jobs |-> FALSE]
    /\ statusLog = [j \in Jobs |-> <<>>]
    /\ ttlExpired = {}
    /\ ppc = "unsent"
    /\ pep = HEALTH
    /\ plocals = NoLocals
    /\ presp = NIL
    /\ tmpfiles = {}
    /\ ref_audio_path = [w \in Workers |-> NIL]
    /\ tts_api = [w \in Workers |-> FALSE]
    /\ signalled = [w \in Workers |-> FALSE]
    /\ since_heartbeat = [w \in Workers |-> 0]
    /\ key_age = [w \in Workers |-> 0]
    /\ blocked_for = [w \in Workers |-> 0]
    /\ loop_for = [w \in Workers |-> 0]

\* The worlds in which the broker is up.
InitWith(timeouts, launched, sent, requests, keys, at) ==
    /\ World(timeouts, launched, sent, requests, keys, at)
    /\ brokerUp = TRUE

\* The producers' side of the dispatch layer: submissions up to the start
\* of their wait.
Enqueue ==
    \/ \E r \in Jobs : synthesize_push(r)
    \/ \E r \in Jobs : enqueue_job_set_pending(r)
    \/ \E r \in Jobs : synthesize_queue_size(r)

\* The workers.
Work ==
    \/ \E w \in Workers : worker_start(w)
    \/ \E w \in Workers : signal_handler(w)
    \/ \E w \in Workers : run_loop_test(w)
    \/ \E w \in Workers : dequeue_job(w)
    \/ \E w \in Workers : dequeue_job_timeout(w)
    \/ \E w \in Workers : process_job_set_processing(w)
    \/ \E w \in Workers : process_job_reference_fails(w)
    \/ \E w \in Workers : process_job_completed(w)
    \/ \E w \in Workers : process_job_failed(w)
    \/ \E w \in Workers : store_result_set_result(w)
    \/ \E w \in Workers : store_result_set_status(w)
    \/ \E w \in Workers : run_cleanup(w)

\* The rendezvous: the waits, the responses, the passing of time.
Rendezvous ==
    \/ \E r \in Jobs : wait_for_result_poll(r)
    \/ \E r \in Jobs : wait_for_result_wake(r)
    \/ \E r \in Jobs : synthesize_respond(r)
    \/ Tick
    \/ \E j \in Jobs : expire_result(j)
    \/ \E j \in Jobs : expire_status(j)

Init == InitWith({MaxTimeout}, Workers, Jobs, RequestShapes({Local}), <<>>, "idle")

Next == Enqueue \/ Work

\* Dispatch: every submission and every worker, the waits left pending.  A
\* wait only reads tts:result:{id}, and what follows it writes only the
\* handler's own variables and the credential, none of which the queue or a
\* worker reads: leaving the waits out removes no behaviour of the queues,
\* the status and result keys or the workers.
Spec == Init /\ [][Next]_vars

TimedInit ==
    InitWith(0..MaxTimeout, {1}, {1}, RequestShapes({Local, LocalWithKey, RemoteWithKey}),
             <<IssuedKey>>, "idle")

TimedNext == Enqueue \/ Work \/ Rendezvous

\* Rendezvous: one submission and one worker, with the wait, the response,
\* the clock and the expiry of the job's keys.
TimedSpec == TimedInit /\ [][TimedNext]_vars

\* A worker is a process of its own: while it has a step to take it takes
\* one.  Signals come from outside and are under no such obligation.
WorkerStep(w) ==
    \/ worker_start(w)
    \/ run_loop_test(w)
    \/ dequeue_job(w)
    \/ dequeue_job_timeout(w)
    \/ process_job_set_processing(w)
    \/ process_job_reference_fails(w)
    \/ process_job_completed(w)
    \/ process_job_failed(w)
    \/ store_result_set_result(w)
    \/ store_result_set_status(w)
    \/ run_cleanup(w)

FairTimedSpec == TimedSpec /\ \A w \in Workers : WF_vars(WorkerStep(w))

\* Every endpoint: one request from any origin, meeting the gate where the
\* endpoint has one, and one worker.
ApiInit == InitWith({MaxTimeout}, {1}, {1}, ApiRequests, <<IssuedKey>>, "arrived")

Api ==
    \/ \E r \in Jobs : verify_api_key_step(r)
    \/ \E r \in Jobs : synthesize_async_queue_size(r)
    \/ \E r \in Jobs : synthesize_async_respond(r)
    \/ \E r \in Jobs : save_voice_sample(r)
    \/ \E r \in Jobs : delete_voice_sample(r)

ApiNext == Api \/ Enqueue \/ Work \/ Rendezvous

ApiSpec == ApiInit /\ [][ApiNext]_vars

\* The credential store alone: the key tool and concurrent increment_usage
\* calls, no request and no worker.
\* Bodies at and around the bounds of the schema, from a local client, a
\* remote client with a credential and a remote client without one.
TextLengths == {NIL, Some(0), Some(MIN_TEXT_LENGTH), Some(MAX_TEXT_LENGTH),
                Some(MAX_TEXT_LENGTH + 1)}

Bodies ==
    {Body(t, g, a, e) : t \in TextLengths, g \in {None, "female", "robot"},
                        a \in {"central", "western"},
                        e \in {None, "bored"}}

RemoteWithoutKey == Origin("10.0.0.5", <<>>, NIL, NIL)

ValidationRequests ==
    {WithBody(Request(e, o, QUALITY_HIGH, ref, NIL), b, q) :
        e \in {SYNC, ASYNC}, o \in {Local, RemoteWithKey, RemoteWithoutKey},
        ref \in References, b \in Bodies, q \in QualityConfigs}

ValidInit == InitWith({MaxTimeout}, {1}, {1}, ValidationRequests, <<IssuedKey>>, "arrived")

\* The submission endpoints with the worker.
ValidNext ==
    \/ \E r \in Jobs : verify_api_key_step(r)
    \/ \E r \in Jobs : synthesize_async_queue_size(r)
    \/ \E r \in Jobs : synthesize_async_respond(r)
    \/ Enqueue \/ Work \/ Rendezvous

ValidSpec == ValidInit /\ [][ValidNext]_vars

\* Dispatch of every submission to one worker that may die at any point.
FaultInit == InitWith({MaxTimeout}, {1}, Jobs, RequestShapes({Local}), <<>>, "idle")

FaultNext == Enqueue \/ Work \/ \E w \in Workers : crash(w)

FaultSpec == FaultInit /\ [][FaultNext]_vars

\* One worker against the clock, idle until the one submission comes, if
\* it comes.
BeatInit == InitWith({MaxTimeout}, {1}, {1}, RequestShapes({Local}), <<>>, "idle")

BeatNext ==
    \/ Enqueue
    \/ \E w \in Workers : timed_worker_start(w)
    \/ \E w \in Workers : signal_handler(w)
    \/ \E w \in Workers : timed_loop_test(w)
    \/ \E w \in Workers : dequeue_job(w)
    \/ \E w \in Workers : timed_dequeue_job_timeout(w)
    \/ \E w \in Workers : process_job_set_processing(w)
    \/ \E w \in Workers : process_job_reference_fails(w)
    \/ \E w \in Workers : process_job_completed(w)
    \/ \E w \in Workers : process_job_failed(w)
    \/ \E w \in Workers : store_result_set_result(w)
    \/ \E w \in Workers : store_result_set_status(w)
    \/ \E w \in Workers : run_cleanup(w)
    \/ \E w \in Workers : timed_expire_worker(w)
    \/ second_passes

BeatSpec == BeatInit /\ [][BeatNext]_vars

\* Start-up step by step: one worker and one submission with the broker
\* up, or one worker with the broker down.
StartInit ==
    \/ InitWith({MaxTimeout}, {1}, {1}, RequestShapes({Local}), <<>>, "idle")
    \/ /\ World({MaxTimeout}, {1}, {}, {DefaultRequest}, <<>>, "idle")
       /\ brokerUp = FALSE

\* The steps of worker w, run taken step by step.
StartStep(w) ==
    \/ run_ping(w)
    \/ load_model(w)
    \/ run_register(w)
    \/ run_set_running(w)
    \/ run_loop_test(w)
    \/ dequeue_job(w)
    \/ dequeue_job_timeout(w)
    \/ process_job_set_processing(w)
    \/ process_job_reference_fails(w)
    \/ process_job_completed(w)
    \/ process_job_failed(w)
    \/ store_result_set_result(w)
    \/ store_result_set_status(w)
    \/ run_cleanup(w)

StartNext ==
    \/ Enqueue
    \/ \E w \in Workers : StartStep(w)
    \/ \E w \in Workers : signal_handler(w)
    \/ \E w \in Workers : signal_handler_starting(w)

StartSpec == StartInit /\ [][StartNext]_vars

\* A worker is a process of its own: while it has a step to take it takes
\* one.
FairStartSpec == StartSpec /\ \A w \in Workers : WF_vars(StartStep(w))

\* Dispatch of every submission to one worker, the export of the reference
\* audio to its temporary file being one more thing that can fail.
FileInit == InitWith({MaxTimeout}, {1}, Jobs, RequestShapes({Local}), <<>>, "idle")

FileNext == Enqueue \/ Work \/ \E w \in Workers : process_job_export_fails(w)

FileSpec == FileInit /\ [][FileNext]_vars

\* One submission and one worker with the broker up, or the broker down
\* and neither; a request to a read-only endpoint in both.
HealthInit ==
    \/ InitWith({MaxTimeout}, {1}, {1}, RequestShapes({Local}), <<>>, "idle")
    \/ /\ World({MaxTimeout}, {}, {}, {DefaultRequest}, <<>>, "idle")
       /\ brokerUp = FALSE

Probe ==
    \/ probe_arrives
    \/ health_workers_scan
    \/ health_workers_get
    \/ job_status_get_status
    \/ job_status_respond
    \/ health_active_workers
    \/ health_metrics
    \/ health_queue_sizes
    \/ health_ping
    \/ health_respond
    \/ job_probe

HealthNext == Enqueue \/ Work \/ Probe \/ \E w \in Workers : expire_worker(w)

HealthSpec == HealthInit /\ [][HealthNext]_vars

KeyInit == InitWith({MaxTimeout}, {}, {}, {DefaultRequest}, <<>>, "idle")

KeyNext ==
    \/ cmd_create
    \/ cmd_delete
    \/ \E c \in Callers : increment_usage_get(c)
    \/ \E c \in Callers : increment_usage_set(c)

KeySpec == KeyInit /\ [][KeyNext]_vars

\* ---------------------------------------------------------------- claims
QueueOf(j) == get_queue_key(req[j].quality)

\* The job ids in a list, in the order BRPOP will return them.
Waiting_ids(key) ==
    [i \in 1..Len(queue[key]) |-> json_loads(queue[key][Len(queue[key]) + 1 - i]).job_id]

InQueue(j) == \E i \in 1..Len(queue[QueueOf(j)]) : Waiting_ids(QueueOf(j))[i] = j

InFlight(j) == \E w \in Workers : job[w] # NIL /\ The(job[w]).job_id = j

IndexOf(seq, x) == CHOOSE i \in 1..Len(seq) : seq[i] = x

Occurs(seq, x) == \E i \in 1..Len(seq) : seq[i] = x

\* C1: the values taken by tts:status:{job_id} never regress: after
\* 'processing' the key is never written 'pending', and after 'completed'
\* or 'error' it is never written a non-terminal value.
C1_StatusNeverRegresses ==
    [][\A j \in Jobs :
          /\ status[j] = PROCESSING => status'[j] # PENDING
          /\ status[j] \in Terminal => status'[j] \notin {PENDING, PROCESSING}]_vars

\* C2: every job is dequeued by at most one worker, its result key is
\* written at most once, and a job that a worker has dequeued is never in a
\* queue again.
C2_AtMostOnce ==
    \A j \in Jobs :
        /\ Len(dequeuedBy[j]) <= 1
        /\ resultWrites[j] <= 1
        /\ InQueue(j) => dequeuedBy[j] = <<>>
        /\ \A k \in QueueKeys :
              Cardinality({i \in 1..Len(queue[k]) : Waiting_ids(k)[i] = j}) <= 1

\* Two workers of one class have competed, one job failed and has its
\* result, and a worker has shut down.
C2_Witness ==
    /\ quality[1] = quality[2]
    /\ \E j \in Jobs : resultWrites[j] = 1 /\ status[j] = ERROR
    /\ \E j \in Jobs : Len(dequeuedBy[j]) = 1 /\ InFlight(j)
    /\ \E w \in Workers : wpc[w] = "stopped" /\ ~running[w]

\* C3, as claimed: of two jobs pushed on the same queue, the one enqueued
\* first is 'processing' no later than the other.
C3_ProcessingInEnqueueOrder ==
    \A a, b \in Jobs :
        (/\ QueueOf(a) = QueueOf(b)
         /\ Occurs(pushLog[QueueOf(a)], a) /\ Occurs(pushLog[QueueOf(a)], b)
         /\ IndexOf(pushLog[QueueOf(a)], a) < IndexOf(pushLog[QueueOf(a)], b)
         /\ Occurs(processingLog, b))
        => (Occurs(processingLog, a)
            /\ IndexOf(processingLog, a) < IndexOf(processingLog, b))

\* C3, amended: of two jobs pushed on the same queue, the one pushed first
\* is dequeued no later than the other.
C3_DequeuedInEnqueueOrder ==
    \A a, b \in Jobs :
        (/\ QueueOf(a) = QueueOf(b)
         /\ Occurs(pushLog[QueueOf(a)], a) /\ Occurs(pushLog[QueueOf(a)], b)
         /\ IndexOf(pushLog[QueueOf(a)], a) < IndexOf(pushLog[QueueOf(a)], b)
         /\ Occurs(popLog[QueueOf(a)], b))
        => (Occurs(popLog[QueueOf(a)], a)
            /\ IndexOf(popLog[QueueOf(a)], a) < IndexOf(popLog[QueueOf(a)], b))

\* Two jobs waited in one queue and both were dequeued, by two workers.
C3_Witness ==
    \E k \in QueueKeys :
        /\ Len(popLog[k]) = 2
        /\ dequeuedBy[1] # dequeuedBy[2]
        /\ \E w \in Workers : job[w] # NIL /\ The(job[w]).job_id = 2 /\ wpc[w] = "synthesize"
        /\ \E w \in Workers : job[w] # NIL /\ The(job[w]).job_id = 1 /\ wpc[w] = "process"

\* The list a worker reads, by its class.
ListOf(q) == IF q = QUALITY_FAST THEN JOBS_QUEUE_FAST ELSE JOBS_QUEUE_HIGH

IsPrefix(p, q) == Len(p) <= Len(q) /\ SubSeq(q, 1, Len(p)) = p

NoWorkerOf(q) == \A w \in Workers : quality[w] # q

Quiescent ==
    /\ \A r \in Jobs : rpc[r] = "poll"
    /\ \A w \in Workers : job[w] = NIL /\ wpc[w] # "init"
    /\ \A k \in QueueKeys : (\E w \in Workers : ListOf(quality[w]) = k) => queue[k] = <<>>

\* C5: a job of quality q stands only in the list of class q and every job
\* a worker holds has the worker's registered quality; with only 'fast'
\* workers running, once all work is done each fast job has a terminal
\* result and has been given a terminal status, each high job is enqueued
\* with status 'pending', and the queue sizes are {high: the high jobs, fast: 0}.
C5_QualityRouting ==
    /\ \A i \in 1..Len(queue[JOBS_QUEUE_FAST]) :
          json_loads(queue[JOBS_QUEUE_FAST][i]).quality = QUALITY_FAST
    /\ \A i \in 1..Len(queue[JOBS_QUEUE_HIGH]) :
          json_loads(queue[JOBS_QUEUE_HIGH][i]).quality = QUALITY_HIGH
    /\ \A w \in Workers :
          job[w] # NIL => /\ The(job[w]).quality = quality[w]
                          /\ workerKey[w] = quality[w]
    /\ \A j \in Jobs :
          (NoWorkerOf(QUALITY_HIGH) /\ req[j].quality = QUALITY_HIGH
              /\ rpc[j] \in {"enqueued", "poll"})
          => (status[j] = PENDING /\ Occurs(Waiting_ids(JOBS_QUEUE_HIGH), j))
    /\ (NoWorkerOf(QUALITY_HIGH) /\ Quiescent) =>
          /\ \A j \in Jobs : req[j].quality = QUALITY_FAST =>
                /\ get_result(j) # NIL
                /\ The(get_result(j)).status \in Terminal
                /\ \E i \in 1..Len(statusLog[j]) : statusLog[j][i] \in Terminal
          /\ get_queue_sizes =
                [high |-> Cardinality({j \in Jobs : req[j].quality = QUALITY_HIGH}),
                 fast |-> 0]

\* One fast and one high job, fast workers only, all work done.
C5_Witness ==
    /\ NoWorkerOf(QUALITY_HIGH)
    /\ Quiescent
    /\ req[1].quality = QUALITY_FAST
    /\ req[2].quality = QUALITY_HIGH
    /\ status[1] \in Terminal
    /\ status[2] = PENDING
    /\ get_queue_sizes = [high |-> 1, fast |-> 0]

\* C6: for each class the queue size is the number of completed enqueues
\* minus the number of dequeues, and the total is the sum over the classes.
C6_QueueSizeAccounting ==
    /\ \A q \in Qualities :
          get_queue_size(q) = enqueued[get_queue_key(q)] - Len(popLog[get_queue_key(q)])
    /\ get_queue_size_total = get_queue_size(QUALITY_HIGH) + get_queue_size(QUALITY_FAST)

Returned(r) == rpc[r] \in {"respond", "done"}

Answered(r, code) == rpc[r] = "done" /\ The(response[r]).status_code = code

\* C7: wait_for_result returns a result if and only if a terminal result
\* was stored before the deadline.
C7_ResultIffStoredBeforeDeadline ==
    \A r \in Jobs : Returned(r) => (waited[r] # NIL <=> storedInTime[r])

\* C8: with timeout 0 the wait returns nil without a single sleep and the
\* submission is answered 408; if no worker took the job it is still in its
\* queue with status 'pending' (until that key's TTL runs out).
C8_ZeroTimeout ==
    \A r \in Jobs :
        (JOB_TIMEOUT = 0 /\ Returned(r)) =>
            /\ waited[r] = NIL
            /\ sleeps[r] = 0
            /\ rpc[r] = "done" =>
                  /\ The(response[r]).status_code = 408
                  /\ dequeuedBy[r] = <<>> =>
                        /\ InQueue(r)
                        /\ status[r] = PENDING \/ <<"status", r>> \in ttlExpired

\* Timeout 0, a worker of the other class only: 408, the job still enqueued
\* and 'pending'.
C8_Witness ==
    /\ JOB_TIMEOUT = 0
    /\ Answered(1, 408)
    /\ dequeuedBy[1] = <<>>
    /\ InQueue(1)
    /\ status[1] = PENDING
    /\ wpc[1] = "blocked"

HeaderNames(resp) == {h[1] : h \in resp.headers}

C10_TimedOutJobStillQueuedOrInFlight ==
    [][\A r \in Jobs :
          (rpc[r] = "respond" /\ rpc'[r] = "done" /\ waited[r] = NIL
              /\ ~storedInTime[r])
          => (InQueue(r) \/ InFlight(r))']_vars

NoWorkerLeft(q) == \A w \in Workers : quality[w] = q => wpc[w] = "stopped"

\* C10, amended: the 408 cancels nothing.  When a submission is answered
\* 408 its job is in its queue, in flight, or already has its terminal
\* result stored, and the answer writes no queue, status or result key; a
\* result once stored is returned by get_result, and by GET /job/{id}/audio
\* (200 with the audio for 'completed', 400 for 'error'), until its TTL runs
\* out; and after a 408 a terminal result is stored unless every worker of
\* the job's class stops first.
C10_TimeoutCancelsNothing ==
    /\ [][\A r \in Jobs :
            (rpc[r] = "respond" /\ rpc'[r] = "done" /\ waited[r] = NIL)
            => /\ (InQueue(r) \/ InFlight(r) \/ get_result(r) # NIL)'
               /\ UNCHANGED <<queue, status, result>>]_vars
    /\ [](\A r \in Jobs :
            (resultWrites[r] >= 1 /\ <<"result", r>> \notin ttlExpired) =>
                /\ get_result(r) # NIL
                /\ The(get_result(r)).status \in Terminal
                /\ get_job_audio(r).status_code =
                      (IF The(get_result(r)).status = COMPLETED THEN 200 ELSE 400)
                /\ The(get_result(r)).status = COMPLETED =>
                      get_job_audio(r).content = EngineAudio(TTSJob(r, req[r])))
    /\ \A r \in Jobs :
          Answered(r, 408) ~> (resultWrites[r] >= 1 \/ NoWorkerLeft(req[r].quality))

\* A 408 was answered while the job was in flight; the worker then stored
\* the completed result and GET /job/{id}/audio returns it.
C10_Witness ==
    /\ Answered(1, 408)
    /\ ~storedInTime[1]
    /\ resultWrites[1] = 1
    /\ get_job_audio(1).status_code = 200
    /\ status[1] = COMPLETED

\* The request has been through the gate (or its endpoint has none).
Gated(r) == rpc[r] \notin {"unsent", "arrived"}

SomeKeyValidates(rq, store) ==
    \/ Truthy(rq.x_api_key) /\ validate_key(store, The(rq.x_api_key)) # NIL
    \/ Truthy(rq.api_key) /\ validate_key(store, The(rq.api_key)) # NIL

FromLocalhost(rq) ==
    \/ rq.client_host \in {"127.0.0.1", "::1", "localhost"}
    \/ /\ rq.forwarded_for # <<>>
       /\ strip(rq.forwarded_for[1]) \in {"127.0.0.1", "::1", "localhost"}

GatedEndpoint(r) == req[r].endpoint \in {SYNC, ASYNC}

\* C11, as claimed: the gate admits a request if and only if it is from
\* localhost or a credential in the X-API-Key header or in the api_key
\* parameter validates.
C11_AdmitsIffLocalhostOrAnyKeyValidates ==
    \A r \in Jobs : (GatedEndpoint(r) /\ Gated(r)) =>
        (rpc[r] # "rejected" <=> (FromLocalhost(req[r]) \/ SomeKeyValidates(req[r], apikey)))

\* The one credential the gate looks at.
PresentedKey(rq) == IF Truthy(rq.x_api_key) THEN rq.x_api_key ELSE rq.api_key

\* C11, amended: the gate admits a request if and only if it is from
\* localhost or the credential it presents validates, the credential
\* presented being the X-API-Key header when that is non-empty and the
\* api_key parameter otherwise.
C11_AdmitsIffLocalhostOrPresentedKeyValidates ==
    \A r \in Jobs : (GatedEndpoint(r) /\ Gated(r)) =>
        /\ rpc[r] # "rejected" <=>
              \/ FromLocalhost(req[r])
              \/ /\ Truthy(PresentedKey(req[r]))
                 /\ validate_key(apikey, The(PresentedKey(req[r]))) # NIL
        /\ (req[r].client_host = None /\ req[r].forwarded_for = <<>>)
              => ~FromLocalhost(req[r])

\* A request without a client and not forwarded for localhost was admitted
\* on the credential in its api_key parameter.
C11_Witness ==
    /\ Gated(1) /\ GatedEndpoint(1)
    /\ rpc[1] # "rejected"
    /\ ~FromLocalhost(req[1])
    /\ req[1].client_host = None
    /\ ~Truthy(req[1].x_api_key)
    /\ req[1].api_key = Some(IssuedKey)
    /\ api_key_info[1] = "k1"

NothingWrittenFor(r) ==
    /\ \A k \in QueueKeys : ~Occurs(pushLog[k], r)
    /\ status[r] = None /\ statusLog[r] = <<>>
    /\ result[r] = {} /\ resultWrites[r] = 0
    /\ apikey = StoreOf(issued)

\* C12: a request that is not from localhost is answered 401 "API key
\* required..." when it presents no credential and 401 "Invalid API key."
\* when the credential it presents does not validate; no job is pushed, no
\* status or result key is written and the credential records keep their
\* counters.
C12_RejectedWithoutEffect ==
    \A r \in Jobs :
        (GatedEndpoint(r) /\ Gated(r) /\ ~FromLocalhost(req[r])) =>
            /\ ~Truthy(PresentedKey(req[r])) =>
                  /\ rpc[r] = "rejected"
                  /\ The(response[r]).status_code = 401
                  /\ The(response[r]).detail =
                        "API key required. Provide via X-API-Key header or api_key query parameter."
                  /\ NothingWrittenFor(r)
            /\ (/\ Truthy(PresentedKey(req[r]))
                /\ validate_key(apikey, The(PresentedKey(req[r]))) = NIL) =>
                  /\ rpc[r] = "rejected"
                  /\ The(response[r]).status_code = 401
                  /\ The(response[r]).detail = "Invalid API key."
                  /\ NothingWrittenFor(r)

\* A remote asynchronous submission with a forged key was answered 401
\* while a worker was waiting for jobs.
C12_Witness ==
    /\ rpc[1] = "rejected"
    /\ req[1].endpoint = ASYNC
    /\ req[1].client_host = "10.0.0.5"
    /\ req[1].x_api_key = Some(ForgedKey)
    /\ The(response[1]).detail = "Invalid API key."
    /\ wpc[1] = "blocked"

\* A caller the gate turns away: not localhost, presenting no valid credential.
Uncredentialed(rq) ==
    /\ ~FromLocalhost(rq)
    /\ ~Truthy(PresentedKey(rq)) \/ validate_key(apikey, The(PresentedKey(rq))) = NIL

\* C13: no step of the handler of a request from a caller who is neither
\* on localhost nor holds a valid credential changes stored state, whatever
\* the endpoint: submission (synchronous or asynchronous), voice-sample
\* creation or voice-sample deletion.
C13_NoWriteWithoutCredential ==
    [][\A r \in Jobs :
          (rpc'[r] # rpc[r] /\ Uncredentialed(req[r]))
          => UNCHANGED <<queue, status, result, apikey, samples>>]_vars

\* The callers whose increment_usage has returned after writing.
Charged == {c \in Callers : ipc[c] = "done" /\ iread[c] # NIL}

\* The credential was there, the same one, for all of the calls.
Undisturbed(key_id) ==
    /\ Cardinality({i \in 1..Len(issued) : issued[i].key_id = key_id}) = 1
    /\ \A i \in 1..Len(deleteLog) : deleteLog[i][1] # key_id

\* C14: N concurrent calls of increment_usage(key_id, k) on an existing
\* credential leave requests_count at its initial value plus N and
\* audio_seconds at its initial value plus N * k.
C14_NoIncrementLost ==
    (Undisturbed(ChargedKey) /\ \A c \in Callers : ipc[c] = "done") =>
        /\ The(apikey[ChargedKey]).requests_count = Cardinality(Charged)
        /\ The(apikey[ChargedKey]).audio_seconds = Cardinality(Charged) * ChargedSeconds

\* C15: a key create_key returned validates, to the info of its record,
\* until its key id is deleted, whatever create_key and increment_usage
\* calls come in between; every other string validates to nil.
C15_IssuedKeysValidate ==
    /\ \A full_key \in live :
          /\ validate_key(apikey, full_key) # NIL
          /\ The(validate_key(apikey, full_key)).key_id = full_key.key_id
    /\ \A full_key \in FullKeys :
          (\A i \in 1..Len(issued) : issued[i] # full_key)
              => validate_key(apikey, full_key) = NIL

\* C16: delete_key returns true exactly when a record for the key id
\* existed, and leaves no record: right after it, no key issued under that
\* id validates.
C16_DeleteReturnsExisted ==
    [][Len(deleteLog') = Len(deleteLog) + 1 =>
          LET key_id == deleteLog'[Len(deleteLog')][1]
              returned == deleteLog'[Len(deleteLog')][2]
          IN  /\ returned <=> apikey[key_id] # NIL
              /\ apikey'[key_id] = NIL
              /\ \A i \in 1..Len(issued) :
                    issued[i].key_id = key_id => validate_key(apikey', issued[i]) = NIL]_vars

\* A key was created and used, its id deleted (true), deleted again (false).
C16_Witness ==
    /\ Len(deleteLog) = 2
    /\ deleteLog[1] = <<"k1", TRUE>>
    /\ deleteLog[2] = <<"k1", FALSE>>
    /\ issued # <<>>
    /\ \E c \in Callers : c \in Charged
    /\ \A i \in 1..Len(issued) : validate_key(apikey, issued[i]) = NIL

\* The request came through the gate on a credential that validates.
Credentialed(rq) ==
    /\ ~FromLocalhost(rq)
    /\ Truthy(PresentedKey(rq))
    /\ validate_key(apikey, The(PresentedKey(rq))) # NIL

\* The store with one request and the given seconds added to a credential.
ChargedOnce(store, key_id, seconds) ==
    [store EXCEPT ![key_id] =
        Some([key_id |-> The(@).key_id,
              full_key_hash |-> The(@).full_key_hash,
              name |-> The(@).name,
              requests_count |-> The(@).requests_count + 1,
              audio_seconds |-> The(@).audio_seconds + seconds])]

\* The handler of r answers in this step.
Answers(r) == rpc[r] # "done" /\ rpc'[r] = "done"

StoredCompleted(j) == <<"status", <<"string", COMPLETED>>>> \in result[j]

JobsAhead(j) == IndexOf(Waiting_ids(QueueOf(j)), j) - 1

\* C21: for a job waiting in its queue, of either class, the position
\* get_queue_position reports for it, and the queue_position of GET
\* /job/{id}, is the number of jobs of its queue that will be dequeued
\* before it; -1 is reported only for a job that is in no queue.
C21_PositionIsJobsAhead ==
    \A j \in Jobs :
        /\ InQueue(j) =>
              /\ get_queue_position(j, req[j].quality) = JobsAhead(j)
              /\ status[j] = PENDING =>
                    get_job_status_handler(j).queue_position = Some(JobsAhead(j))
        /\ ~InQueue(j) =>
              /\ get_queue_position(j, req[j].quality) = -1
              /\ status[j] = PENDING =>
                    get_job_status_handler(j).queue_position = Some(-1)

\* C22: an asynchronous submission is answered with its own job id,
\* status 'pending', the size of the job's queue read after its enqueue
\* returned, and estimated_wait = queue_position / active workers * 3,
\* null exactly when no worker key exists.
C22_AsyncResponse ==
    [][\A r \in Jobs : req[r].endpoint = ASYNC =>
          /\ (rpc[r] = "enqueued" /\ rpc'[r] = "sized") =>
                /\ Occurs(pushLog[QueueOf(r)], r)
                /\ Occurs(statusLog[r], PENDING)
                /\ queue_position'[r] = Len(queue[QueueOf(r)])
          /\ Answers(r) =>
                LET resp == The(response'[r])
                    active == Cardinality({w \in Workers : workerKey[w] # None})
                IN  /\ resp.status_code = 200
                    /\ resp.job_id = r
                    /\ \A r2 \in Jobs \ {r} :
                          response[r2] # NIL /\ "job_id" \in DOMAIN The(response[r2])
                              => The(response[r2]).job_id # r
                    /\ resp.status = PENDING
                    /\ resp.queue_position = queue_position[r]
                    /\ resp.estimated_wait = NIL <=> active = 0
                    /\ active > 0 =>
                          The(resp.estimated_wait).num * active
                              = queue_position[r] * 3 * The(resp.estimated_wait).den]_vars

\* One job waiting, one worker registered: position 1, estimated wait 3 s.
C22_Witness ==
    /\ req[1].endpoint = ASYNC
    /\ rpc[1] = "done"
    /\ The(response[1]).queue_position = 1
    /\ The(response[1]).estimated_wait = Some([num |-> 3, den |-> 1])
    /\ The(response[1]).status = PENDING

\* The jobs on which the engine or the reference preprocessing raised.
FailedJobs ==
    {j \in Jobs :
        \/ <<"status", <<"string", ERROR>>>> \in result[j]
        \/ \E w \in Workers : /\ job[w] # NIL /\ The(job[w]).job_id = j
                              /\ wresult[w] # NIL /\ The(wresult[w]).status = ERROR}

Raises(w) ==
    /\ wpc[w] \in {"process", "synthesize"}
    /\ wpc'[w] = "store_result"
    /\ The(wresult'[w]).status = ERROR

\* C23: when the engine or the reference preprocessing raises on a job the
\* worker builds an 'error' result with the message and the error code,
\* adds exactly 1 to jobs_failed (and nothing to jobs_completed), stores
\* the result and the status 'error', is back at its loop test still
\* running unless signalled, and from there calls dequeue_job again.
C23_WorkerSurvivesEngineError ==
    [][/\ (metrics.jobs_failed = Cardinality(FailedJobs))'
       /\ \A w \in Workers :
            /\ Raises(w) =>
                  /\ metrics' = [metrics EXCEPT !.jobs_failed = @ + 1]
                  /\ DOMAIN The(wresult'[w]) = {"status", "error", "error_code"}
                  /\ The(wresult'[w]).error \in {"cannot decode reference", "synthesis failed"}
                  /\ The(wresult'[w]).error_code \in {"CouldntDecodeError", "RuntimeError"}
                  /\ running'[w] = running[w]
            /\ (wresult[w] # NIL /\ The(wresult[w]).status = ERROR
                  /\ wpc[w] = "store_status" /\ wpc'[w] # "store_status") =>
                  LET j == The(job[w]).job_id IN
                  /\ json_loads(result[j]) = The(wresult[w])
                  /\ status'[j] = ERROR
                  /\ wpc'[w] = "loop" /\ job'[w] = NIL
                  /\ running'[w] = running[w]
            /\ (wpc[w] = "loop" /\ running[w] /\ wpc'[w] # "loop") =>
                  wpc'[w] = "dequeue"]_vars

\* A worker failed one job, stored its error, and has dequeued the next.
C23_Witness ==
    \E w \in Workers : \E a, b \in Jobs :
        /\ a # b
        /\ dequeuedBy[a] = <<w>> /\ dequeuedBy[b] = <<w>>
        /\ status[a] = ERROR
        /\ json_loads(result[a]).error_code = "RuntimeError"
        /\ metrics.jobs_failed = 1
        /\ wpc[w] = "synthesize" /\ The(job[w]).job_id = b

\* The jobs dequeue_job has returned to worker w.
DequeuedBy(w) == {j \in Jobs : Occurs(dequeuedBy[j], w)}

HasTerminalResult(j) ==
    /\ result[j] # {}
    /\ json_loads(result[j]).status \in Terminal
    /\ resultWrites[j] = 1

\* C24: a worker signalled in its main loop makes no new call of
\* dequeue_job once its loop test has seen the signal; a job it holds, the
\* one its pending blocking dequeue returns included, is processed and its
\* terminal result stored before the worker leaves the loop; when the
\* worker has exited its key is deleted, it holds no job and waits on no
\* list.
C24_GracefulShutdown ==
    [][\A w \in Workers :
          /\ (wpc[w] = "loop" /\ wpc'[w] = "dequeue") => running[w]
          /\ (wpc[w] = "loop" /\ ~running[w] /\ wpc'[w] # "loop") => wpc'[w] = "cleanup"
          /\ DequeuedBy(w)' # DequeuedBy(w) => wpc[w] \in {"dequeue", "blocked"}
          /\ (wpc'[w] \in {"cleanup", "stopped"}) =>
                /\ job'[w] = NIL
                /\ \A k \in QueueKeys : ~Occurs(blocked'[k], w)
                /\ \A j \in DequeuedBy(w)' : HasTerminalResult(j)'
          /\ wpc'[w] = "stopped" => workerKey'[w] = None]_vars

\* A worker signalled while it held a job has stored the job's result and
\* exited, its key gone.
C24_Witness ==
    \E w \in Workers : \E j \in Jobs :
        /\ wpc[w] = "stopped" /\ ~running[w]
        /\ dequeuedBy[j] = <<w>>
        /\ HasTerminalResult(j)
        /\ status[j] \in Terminal
        /\ workerKey[w] = None

\* store_result has returned for job j.
StoreResultReturned(j) == \E i \in 1..Len(statusLog[j]) : statusLog[j][i] \in Terminal

\* C26: after store_result(id, r) has returned and until a TTL runs out,
\* get_result(id) is r and get_job_status(id) is r's status.
C26_StoredResultReadBack ==
    \A j \in Jobs :
        (/\ StoreResultReturned(j)
         /\ <<"result", j>> \notin ttlExpired
         /\ <<"status", j>> \notin ttlExpired)
        => /\ get_result(j) # NIL
           /\ The(get_result(j)).status \in Terminal
           /\ The(get_result(j)).status = COMPLETED =>
                 b64decode(The(get_result(j)).audio) = EngineAudio(TTSJob(j, req[j]))
           /\ get_job_status(j) = The(get_result(j)).status

\* enqueue_job has returned for the job of submission r.
EnqueueReturned(r) == rpc[r] \in {"enqueued", "sized", "poll", "sleep", "respond", "done"}

\* No worker has begun processing job j: it has not been dequeued, or the
\* worker that holds it has not yet reached set_job_status.
NotBegun(j) ==
    \/ dequeuedBy[j] = <<>>
    \/ \E w \in Workers : /\ job[w] # NIL /\ The(job[w]).job_id = j
                          /\ wpc[w] = "process"

\* C27: from the return of enqueue_job until a worker has dequeued the job
\* and begun processing it, get_job_status is 'pending' (while the status
\* key has not expired).
C27_PendingUntilProcessing ==
    \A r \in Jobs :
        (EnqueueReturned(r) /\ NotBegun(r) /\ <<"status", r>> \notin ttlExpired)
            => get_job_status(r) = PENDING

\* An asynchronous submission answered, its job dequeued and the worker
\* still decoding the reference: the status reads 'pending'.
C27_Witness ==
    /\ req[1].endpoint = ASYNC
    /\ rpc[1] = "done"
    /\ dequeuedBy[1] = <<1>>
    /\ wpc[1] = "process"
    /\ VoiceCloning(req[1])
    /\ get_job_status(1) = PENDING

\* The body, read against the schema field by field.
SchemaViolated(rq) ==
    \/ rq.text = NIL
    \/ rq.text # NIL /\ (The(rq.text) = 0 \/ The(rq.text) > 5000)
    \/ rq.gender \notin {None, "male", "female"}
    \/ rq.area \notin {None, "northern", "southern", "central"}
    \/ rq.emotion \notin {None, "neutral", "serious", "monotone", "sad",
                          "surprised", "happy", "angry"}
    \/ rq.quality \notin {"high", "fast"}

\* C29, as claimed: a submission whose body fails the schema is answered
\* 422, enqueues no job and writes no status key; text of length 1 and of
\* length 5000 is accepted.
C29_InvalidBodyAnswered422 ==
    \A r \in Jobs : (GatedEndpoint(r) /\ Gated(r)) =>
        /\ SchemaViolated(req[r]) =>
              /\ rpc[r] = "invalid"
              /\ The(response[r]).status_code = 422
              /\ NothingWrittenFor(r)
        /\ ~SchemaViolated(req[r]) => rpc[r] # "invalid"

\* The gate lets the request through.
PassesGate(rq) == FromLocalhost(rq) \/ Credentialed(rq)

\* C29, amended: a submission that passes the credential gate and whose
\* body fails the schema is answered 422, enqueues no job and writes no
\* status key; one the gate turns away is answered 401 whatever its body;
\* a body that meets the schema (text of length 1 and 5000 included) is
\* never answered 422.
C29_InvalidBodyAnswered422PastGate ==
    \A r \in Jobs : (GatedEndpoint(r) /\ Gated(r)) =>
        /\ (PassesGate(req[r]) /\ SchemaViolated(req[r])) =>
              /\ rpc[r] = "invalid"
              /\ The(response[r]).status_code = 422
              /\ NothingWrittenFor(r)
        /\ ~PassesGate(req[r]) =>
              /\ rpc[r] = "rejected"
              /\ The(response[r]).status_code = 401
              /\ NothingWrittenFor(r)
        /\ (PassesGate(req[r]) /\ ~SchemaViolated(req[r])) =>
              /\ rpc[r] \notin {"invalid", "rejected"}
              /\ response[r] # NIL => The(response[r]).status_code # 422

\* A text of 5001 characters from a client with a credential: 422.
C29_Witness ==
    /\ rpc[1] = "invalid"
    /\ req[1].text = Some(5001)
    /\ req[1].gender = "female" /\ req[1].area = "central" /\ req[1].quality = "fast"
    /\ Credentialed(req[1])
    /\ The(response[1]).status_code = 422
    /\ status[1] = None

\* C25: when the broker is unavailable, GET /health answers 200 with
\* status 'unhealthy' instead of failing, while the other endpoints that
\* read the broker (GET /job/{job_id}, GET /job/{job_id}/audio) answer 5xx.
C25_UnhealthyWhenBrokerDown ==
    (~brokerUp /\ ppc = "done") =>
        IF pep = HEALTH
        THEN presp[1].status_code = 200 /\ presp[1].status = "unhealthy"
        ELSE presp[1].status_code >= 500

\* Worker w's key tts:worker:{w} exists.
KeyExists(w) == workerKey[w] # None

\* C30: get_active_workers, and the workers /health reports from it, are
\* the workers whose key exists when the keys are read; a step in which a
\* worker's key disappears (its TTL runs out, or the worker unregisters)
\* leaves the job the worker holds, the job's result so far, the queues and
\* every status and result key as they were and does not move the worker
\* off its course; a worker that has left its loop has stored a terminal
\* result for every job it dequeued, whether or not its key was there.
C30_ActiveWhileKeyExists ==
    [][/\ (ppc = "by_quality" /\ ppc' = "workers") =>
             plocals'.all_workers = {w \in Workers : KeyExists(w)}
       /\ (ppc = "pinged" /\ ppc' = "done") =>
             /\ presp'[1].workers.ids = plocals.all_workers
             /\ presp'[1].workers.active = Cardinality(plocals.all_workers)
       /\ \A w \in Workers :
             /\ (KeyExists(w) /\ ~KeyExists(w)') =>
                   /\ UNCHANGED <<queue, blocked, status, result, metrics, job, wresult>>
                   /\ wpc'[w] = wpc[w] \/ (wpc[w] = "cleanup" /\ job[w] = NIL)
             /\ wpc'[w] \in {"cleanup", "stopped"} =>
                   \A j \in DequeuedBy(w)' : HasTerminalResult(j)']_vars

\* The worker's key ran out while it held a job; /health, asked then,
\* counted no worker; the worker has since stored the job's result.
C30_Witness ==
    \E w \in Workers : \E j \in Jobs :
        /\ ~KeyExists(w)
        /\ wpc[w] = "store_status"
        /\ job[w] # NIL
        /\ dequeuedBy[j] = <<w>>
        /\ result[j] # {}
        /\ ppc = "done" /\ pep = HEALTH
        /\ presp[1].status_code = 200
        /\ presp[1].workers.active = 0

\* Worker w died holding job j before its store_result wrote the result.
CrashedHolding(w, j) ==
    /\ wpc[w] = "crashed"
    /\ job[w] # NIL /\ The(job[w]).job_id = j
    /\ resultWrites[j] = 0

\* The worker that took job j has written its status 'processing'.
WroteProcessing(j) == Occurs(statusLog[j], PROCESSING)

\* C28: a worker that crashes after dequeuing a job and before storing a
\* terminal result changes nothing by crashing: the queues, every status
\* and result key and the metrics are as before; from then on the job's
\* status stays at the value the worker last wrote ('processing', if it
\* got that far), no result is created for it and it is in no queue again.
C28_CrashLeavesStatusAsWritten ==
    [][\A w \in Workers : \A j \in Jobs :
          CrashedHolding(w, j)' =>
              /\ wpc[w] # "crashed" => UNCHANGED <<queue, status, result, metrics>>
              /\ WroteProcessing(j)' => status'[j] = PROCESSING
              /\ result'[j] = {}
              /\ ~InQueue(j)']_vars

\* C31: every terminal value written to tts:status:{job_id} comes after a
\* write of 'processing' for the same job: no job goes from 'pending' to
\* 'completed' or 'error' directly, whatever path _process_job takes.
C31_ProcessingBeforeTerminal ==
    \A j \in Jobs : \A i \in 1..Len(statusLog[j]) :
        statusLog[j][i] \in Terminal =>
            \E k \in 1..(i - 1) : statusLog[j][k] = PROCESSING

\* C36: a deleted credential stays deleted: a record apikey:{key_id} that
\* does not exist comes to exist only by create_key, never by an
\* increment_usage that was under way when delete_key returned.
C36_DeletedStaysDeleted ==
    [][\A id \in KeyIds :
          (apikey[id] = NIL /\ apikey'[id] # NIL) => issued' # issued]_vars

\* C37: store_result writes tts:result:{id} before the terminal
\* tts:status:{id}: whenever a terminal status is written the result is
\* there with that status, and GET /job/{id}, which reads the status and
\* afterwards the result, finds for a terminal status the result present
\* with the same status and answers with its details.
C37_ResultBeforeTerminalStatus ==
    [][/\ \A j \in Jobs :
             (status'[j] # status[j] /\ status'[j] \in Terminal) =>
                 /\ result[j] # {}
                 /\ json_loads(result[j]).status = status'[j]
       /\ (ppc = "status_read" /\ ppc' = "done" /\ plocals.status \in Terminal) =>
             /\ get_result(plocals.job_id) # NIL
             /\ The(get_result(plocals.job_id)).status = plocals.status
             /\ presp'[1].status = plocals.status
             /\ plocals.status = COMPLETED => presp'[1].audio_url # NIL
             /\ plocals.status = ERROR => presp'[1].error # NIL]_vars

\* GET /job/{id} has read a terminal status, then the result, and answered.
C37_Witness ==
    /\ ppc = "done" /\ pep = JOB_STATUS
    /\ plocals.status \in Terminal
    /\ presp[1].status_code = 200
    /\ presp[1].audio_url # NIL \/ presp[1].error # NIL

\* C38: every /health response is consistent in itself: workers.active is
\* the number of workers.ids and the sum of the lengths of
\* workers.by_quality.high and .fast, and queue_size is queue_sizes.high +
\* queue_sizes.fast, whatever happened between the handler's reads.
C38_HealthResponseConsistent ==
    (ppc = "done" /\ pep = HEALTH /\ presp[1].status_code = 200) =>
        /\ presp[1].workers.active = Cardinality(presp[1].workers.ids)
        /\ presp[1].workers.active =
              Cardinality(presp[1].workers.by_quality.high)
              + Cardinality(presp[1].workers.by_quality.fast)
        /\ presp[1].queue_size = presp[1].queue_sizes.high + presp[1].queue_sizes.fast

\* C39: get_workers_by_quality lists a worker only if its key exists when
\* the value is read, and under the quality the worker registered with: a
\* key gone since the scan does not get the worker listed, and a 'fast'
\* worker is never listed under 'high'.
C39_ListedIffKeyReadUnderItsQuality ==
    [][\A w \in Workers : \A q \in Qualities :
          (ppc = "scanned" /\ w \in plocals'.by_quality[q] /\ w \notin plocals.by_quality[q])
              => workerKey[w] # None /\ q = quality[w]]_vars

\* The jobs for which a result with status st has been built: stored, or
\* held by the worker that is about to store it.
Counted(st) ==
    {j \in Jobs :
        \/ result[j] # {} /\ json_loads(result[j]).status = st
        \/ \E w \in Workers : /\ job[w] # NIL /\ The(job[w]).job_id = j
                              /\ wresult[w] # NIL /\ The(wresult[w]).status = st}

\* The writes of tts:result:{id} so far, over all jobs.
ResultsWritten == UNION {{<<j, n>> : n \in 1..resultWrites[j]} : j \in Jobs}

\* The workers between the increment of their job's counter and store_result.
AboutToStore == {w \in Workers : wpc[w] = "store_result"}

\* C35: each processed job has incremented exactly one of jobs_completed
\* and jobs_failed, once, the one that matches the status of its result,
\* and did so before the result was stored; so jobs_completed + jobs_failed
\* is at least the number of results written and exceeds it by at most the
\* number of workers between the increment and store_result.
C35_OneCounterPerJob ==
    [][/\ (/\ metrics.jobs_completed = Cardinality(Counted(COMPLETED))
           /\ metrics.jobs_failed = Cardinality(Counted(ERROR))
           /\ metrics.jobs_completed + metrics.jobs_failed >= Cardinality(ResultsWritten)
           /\ metrics.jobs_completed + metrics.jobs_failed
                 <= Cardinality(ResultsWritten) + Cardinality(AboutToStore))'
       /\ \A j \in Jobs :
             result'[j] # result[j] =>
                 /\ metrics' = metrics
                 /\ j \in Counted(json_loads(result'[j]).status)]_vars

\* One job completed and one failed, both results stored and both counted,
\* no worker about to store.
C35_Witness ==
    /\ metrics.jobs_completed = 1 /\ metrics.jobs_failed = 1
    /\ Cardinality(ResultsWritten) = 2
    /\ AboutToStore = {}

\* _process_job has returned in worker w for the job it holds.
ProcessJobReturned(w) == wpc[w] \in {"store_result", "store_status"}

\* C34: when _process_job returns, no temporary reference-audio file the
\* worker created for the job exists any more, on every exit path:
\* synthesis done, the engine failing, the export into the file failing.
C34_NoTemporaryFileLeft ==
    \A w \in Workers :
        ProcessJobReturned(w) => The(job[w]).job_id \notin tmpfiles

\* C32: a termination signal delivered at any time after __init__ has
\* installed the handlers, start-up included, leads the worker to leave
\* its loop, unregister and stop (or to end at the failed ping).
C32_SignalLeadsToStop ==
    \A w \in Workers :
        signalled[w] ~> (wpc[w] \in {"stopped", "failed"} /\ workerKey[w] = None)

\* C33: start-up goes ping, load engine, register, loop, in that order: the
\* worker key is written only when the engine is loaded, the worker blocks
\* on or takes from a list only once it has registered, and a worker whose
\* ping failed ends there, its engine not loaded, no key, nothing dequeued.
C33_StartupOrder ==
    [][\A w \in Workers :
          /\ wpc'[w] # wpc[w] =>
                /\ wpc[w] = "init" => wpc'[w] = (IF brokerUp THEN "load_model" ELSE "failed")
                /\ wpc[w] = "load_model" => wpc'[w] = "register" /\ tts_api'[w]
                /\ wpc[w] = "register" => wpc'[w] = "set_running" /\ workerKey'[w] # None
                /\ wpc[w] = "set_running" => wpc'[w] = "loop"
                /\ wpc[w] # "failed"
          /\ workerKey'[w] # workerKey[w] /\ workerKey'[w] # None => tts_api[w]
          /\ tts_api'[w] # tts_api[w] => wpc[w] = "load_model"
          /\ (wpc'[w] \in {"init", "load_model", "register", "failed"}) =>
                /\ workerKey'[w] = None
                /\ DequeuedBy(w)' = {}
                /\ \A k \in QueueKeys : ~Occurs(blocked'[k], w)
          /\ wpc'[w] = "failed" => ~tts_api'[w]]_vars

\* A worker that pinged, loaded the engine and registered holds a job.
C33_Witness ==
    \E w \in Workers :
        /\ tts_api[w] /\ workerKey[w] # None
        /\ wpc[w] = "process"
        /\ DequeuedBy(w) # {}

\* The longest a heartbeat can be overdue: not yet due at one test, a full
\* BRPOP and the overhead later at the next (35 s).
LongestBeat == HEARTBEAT_INTERVAL - 1 + DEQUEUE_TIMEOUT + LoopOverhead

\* Worker w is in its loop, running, and has found no job so far.
IdleRunning(w) ==
    /\ wpc[w] \in {"loop", "dequeue", "blocked"}
    /\ running[w]
    /\ DequeuedBy(w) = {}

\* C40: with the heartbeat every 30 s, the dequeue timeout 5 s and the key's
\* TTL 60 s, a running worker that finds no jobs rewrites its key at least
\* every 35 s: the key is never older than that, never expires, and the
\* worker is counted as active from registration until shutdown.
C40_IdleWorkerKeyKept ==
    [][\A w \in Workers :
          /\ IdleRunning(w)' =>
                /\ workerKey'[w] # None
                /\ key_age'[w] <= LongestBeat
                /\ key_age'[w] < WORKER_HEARTBEAT_TTL
                /\ since_heartbeat'[w] <= LongestBeat
                /\ w \in get_active_workers'
          /\ (IdleRunning(w) /\ workerKey'[w] = None) => wpc'[w] = "stopped"]_vars

\* An idle worker whose key has reached 35 s, having been rewritten before.
C40_Witness ==
    \E w \in Workers :
        /\ IdleRunning(w)
        /\ key_age[w] = LongestBeat
        /\ wpc[w] = "loop"
====
